---- MODULE Spec2Model ----
(***************************************************************************)
(* Model of the micperf benchmark harness: the orchestrator loop of        *)
(* micp/run.py and the offload execution protocol of micp/offload.py       *)
(* (Offload.run and its Native/Pragma/SCIF/MYO overrides), together with   *)
(* Kernel.clean_up and the param_file methods of the file-grammar kernels. *)
(*                                                                         *)
(* The orchestrator is single threaded, so the model is one sequential     *)
(* process whose position is pc.  The environment (file copies, process    *)
(* launches, exit codes, keyboard interrupts, parse results, removals)     *)
(* is a nondeterministic choice at the step that consults it.              *)
(***************************************************************************)
EXTENDS Integers, Sequences, FiniteSets, TLC

\* Bounds of the model.
MaxParams == 2
MaxPairs == 2
\* the most calls of category_params a caller makes
MaxCalls == 2
\* the longest token list handed to Params.__init__
MaxTokens == 3
\* the largest numDrop handed to ParamsDrop.__init__
MaxDrop == 2
MaxCompared == 3
MaxStats == 2
MaxBlock == 2
MaxExtends == 2
MaxAppends == 3
MaxStored == 3
MaxResults == 3

\* offload.py:466-475 the offloads registered by OffloadFactory
Offloads == {"native", "scif", "coi", "myo", "pragma", "auto", "local"}

\* Kernels of micp/kernels; "other" is a kernel that keeps the defaults of
\* the Kernel base class and declares paramDrop/paramMax.
Kernels == {"sgemm", "linpack", "hplinpack", "hpcg", "other"}

\* kernel.paramDrop[offload.name]: absent, a positive count or a negative one
DropModes == {"absent", "pos", "neg"}

ExitCodes == {0, 1, 127}

VARIABLES
    pc,            \* position of the orchestrator / of Offload.run
    pairIdx,       \* number of (offload, kernel) pairs started
    offload,       \* offload.name of the current pair
    kernel,        \* kernel.name of the current pair
    kernelParams,  \* run.py kernelParams
    paramList,     \* Offload.run paramList
    devParamList,  \* Offload.run devParamList
    runDev,        \* self._runDev
    k,             \* index of the parameter set being executed
    result,        \* Offload.run result
    filesToRemove, \* Offload.run filesToRemove
    devParamFile,  \* Offload.run devParamFile: a list or (transiently) a str
    hostParamFile, \* Offload.run hostParamFile
    devParamFileOnHost, \* Offload.run devParamFileOnHost
    hostArgs,      \* Offload.run hostArgs
    devProc,       \* Offload.run devProc
    hostProc,      \* Offload.run hostProc
    running,       \* kernel child processes alive in the operating system
    devFiles,      \* files in the device working directory
    dirs,          \* local scratch directories that exist
    files,         \* local parameter files that exist (named by their directory)
    workDir,       \* kernel._working_directory
    exc,           \* exception in flight / leaving Offload.run
    retval,        \* value returned by Offload.run
    store,         \* StatsCollection._store of run.py result
    saved,         \* contents of the pickled results file
    environ,       \* os.environ['OFFLOAD_DEVICES'] of the orchestrator process
    hist,          \* history of the current Offload.run invocation
    tokens,        \* params.py: the params argument of Params.__init__
    defaults,      \* params.py: the defaults argument of Params.__init__
    heap,          \* params.py: the Params objects that exist, by reference
    paramsDrop,    \* params.py: the ParamsDrop object, if one was made
    phase,         \* position of the parameter library's caller
    launch,        \* offload.py: command line and environment of the kernel processes
    cat,           \* kernel.py: a kernel's category table and a caller of category_params
    cmp            \* stats.py: a comparison of Stats and the regression test's locals

vars == <<pc, pairIdx, offload, kernel, kernelParams, paramList, devParamList, runDev, k, result,
          filesToRemove, devParamFile, hostParamFile, devParamFileOnHost,
          hostArgs, devProc, hostProc, running, devFiles, dirs, files, workDir, exc, retval,
          store, saved, environ, hist, tokens, defaults, heap, paramsDrop, phase, launch, cat, cmp>>

-----------------------------------------------------------------------------
\* Values

NoDir == <<"none", 0, 0>>
NoProc == [pid |-> <<"none", 0, 0>>, reaped |-> FALSE, rc |-> 0]
NoExc == [type |-> "none", dep |-> "", hasPartial |-> FALSE, partial |-> <<>>,
          rc |-> 0, cmd |-> <<>>]
Exc(t) == [NoExc EXCEPT !.type = t]

\* common.py:116-134 MissingDependenciesError(dep)
MissingDependenciesError(dep) == [NoExc EXCEPT !.type = "MissingDependenciesError", !.dep = dep]

\* connect.py:415-416 CalledProcessError(returncode, cmd)
CalledProcessError(rc, cmd) == [NoExc EXCEPT !.type = "CalledProcessError", !.rc = rc, !.cmd = cmd]

ListOf(names) == [kind |-> "list", names |-> names]
StrOf(name) == [kind |-> "str", names |-> {name}]

NoHist == [launched |-> {}, staged |-> FALSE, stageDone |-> FALSE,
           paramsModified |-> FALSE,
           envChanged |-> FALSE, hostEnv |-> "none", rmIssued |-> {}, created |-> {},
           bodyExc |-> NoExc, cleanupFailed |-> FALSE, execMissing |-> FALSE,
           mpiMissing |-> FALSE,
           order |-> <<>>, failedAt |-> 0]

\* kernel.py:473-476, hpcg.py:261-263, _xgemm.py:229-231
is_mpi_required(kn, sncMode) == kn = "hpcg" \/ (kn = "sgemm" /\ sncMode)

\* offload.py:62-65 _validate_mpi_requirements: the kernel cannot run
MpiMissing(kn, sncMode, mpiAvailable) == is_mpi_required(kn, sncMode) /\ ~mpiAvailable

\* kernel.py:278-299, _xgemm.py:104-105, linpack.py:146, hplinpack.py:203, hpcg.py:117
param_type(kn) ==
    IF kn \in {"linpack", "hplinpack", "hpcg"} THEN "file"
    ELSE IF kn = "sgemm" THEN "flag" ELSE "pos"

\* offload.py:351-464 the _runHost flag of each offload class
RunHost(o) == o # "native"

\* offload.py:351-464 the _runDev flag each offload class is constructed with
InitRunDev(o) == o \in {"native", "scif", "myo"}

\* offload.py:125 kernels whose missing executable is a missing dependency
HardDepKernels == {"linpack", "hplinpack", "hpcg"}

\* kernel.py:121-127, linpack.py:140-144, _xgemm.py:98-102 path_aux_data
path_aux_data(kn, o) ==
    IF o = "native" /\ kn \in {"sgemm", "linpack"} THEN {<<"aux", 0, 0>>} ELSE {}

\* offload.py:368, 424, 451 kernel.paramDrop[...]: no kernel of micp/kernels has one
paramDrop(kn) == IF kn = "other" THEN DropModes ELSE {"absent"}

\* params.py:403-414 ParamsDrop(pp, numDrop, paramMax): a deep copy that hides names
ParamsDrop(pp) == [pp EXCEPT !.drop = TRUE]

DropAll(list) == [i \in 1..Len(list) |-> ParamsDrop(list[i])]

\* offload.py:456 Params('', ['']) for each parameter set
DummyParams(list) == [i \in 1..Len(list) |-> [id |-> 0, drop |-> FALSE]]

\* run.py:197-200, 208-211 the results file: absent, or the pickled collection
NotSaved == [outDir |-> FALSE, written |-> FALSE, content |-> <<>>]

\* run.py:143-149, 197-200, 208-211 the collection is pickled when outDir is given
Pickle(outDir, st) == [outDir |-> outDir, written |-> outDir, content |-> IF outDir THEN st ELSE <<>>]

\* A variant of append that replaces the list of a key the collection holds
appendReplacing(st, kn, o, stats) ==
    IF \E i \in 1..Len(st) : st[i].kernel = kn /\ st[i].offload = o
    THEN [i \in 1..Len(st) |->
            IF st[i].kernel = kn /\ st[i].offload = o
            THEN [st[i] EXCEPT !.stats = stats]
            ELSE st[i]]
    ELSE Append(st, [kernel |-> kn, offload |-> o, stats |-> stats])

\* stats.py:218-227 StatsCollection.append: extend the list of the key, or create it
append(st, kn, o, stats) ==
    IF \E i \in 1..Len(st) : st[i].kernel = kn /\ st[i].offload = o
    THEN [i \in 1..Len(st) |->
            IF st[i].kernel = kn /\ st[i].offload = o
            THEN [st[i] EXCEPT !.stats = @ \o stats]
            ELSE st[i]]
    ELSE Append(st, [kernel |-> kn, offload |-> o, stats |-> stats])

-----------------------------------------------------------------------------
InitRun ==
    /\ pc = "orch"
    /\ pairIdx = 0
    /\ offload = "local"
    /\ kernel = "other"
    /\ kernelParams = <<>>
    /\ paramList = <<>>
    /\ devParamList = <<>>
    /\ runDev = FALSE
    /\ k = 1
    /\ result = <<>>
    /\ filesToRemove = {}
    /\ devParamFile = ListOf({})
    /\ hostParamFile = {}
    /\ devParamFileOnHost = NoDir
    /\ hostArgs = <<>>
    /\ devProc = NoProc
    /\ hostProc = NoProc
    /\ running = {}
    /\ devFiles = {}
    /\ dirs = {}
    /\ files = {}
    /\ workDir = [kn \in Kernels |-> NoDir]
    /\ exc = NoExc
    /\ retval = <<>>
    /\ store = <<>>
    /\ saved = NotSaved
    /\ environ = "inherited"
    /\ hist = NoHist

\* params.py:54 a parameter without a value holds None, which is no string
None == <<"None">>

\* no ParamsDrop object has been made
NoParamsDrop == [ref |-> 0, numDrop |-> 0, paramMax |-> 0]

\* no process has been launched
NoProcess == [args |-> <<>>, env |-> <<>>, launched |-> FALSE]

\* no kernel is being launched
NoLaunch ==
    [kernel |-> "other", offload |-> "local", type |-> "pos", selfboot |-> FALSE,
     snc |-> FALSE, dev |-> NoProcess, host |-> NoProcess]

\* no Stats are being compared
NoCmp == [mode |-> "idle"]

\* no kernel's categories are in use
NoCat ==
    [heap |-> <<>>, table |-> <<>>, kernel |-> "other", offload |-> "none", asked |-> "",
     ret |-> 0, err |-> "none", phase |-> "idle", calls |-> 0]

\* params.py: the orchestrator of a run has made no call into the library
LibIdle ==
    /\ tokens = <<>>
    /\ defaults = <<>>
    /\ heap = <<>>
    /\ paramsDrop = NoParamsDrop
    /\ phase = "idle"
    /\ launch = NoLaunch
    /\ cat = NoCat
    /\ cmp = NoCmp

Init == InitRun /\ LibIdle

-----------------------------------------------------------------------------
\* Groups of variables a step leaves alone

pair == <<pairIdx, offload, kernel, kernelParams>>
lists == <<paramList, devParamList>>
procs == <<devProc, hostProc, running, hostArgs>>
fs == <<devFiles, dirs, files, workDir>>
locals == <<filesToRemove, devParamFile, hostParamFile, devParamFileOnHost>>
orch == <<store, saved, environ>>
run == <<pc, pair, lists, runDev, k, result, locals, procs, fs, exc, retval, orch, hist>>
lib == <<tokens, defaults, heap, paramsDrop, phase, launch, cat, cmp>>
rest == <<cat, cmp, run>>

\* offload.py:164 zip(paramList, devParamList) stops at the shorter list
ZipLen == IF Len(paramList) <= Len(devParamList) THEN Len(paramList) ELSE Len(devParamList)

hostParam == paramList[k]
devParam == devParamList[k]

\* An exception raised in the body of the outer try of Offload.run (offload.py:155-326)
RaiseBody(e) ==
    /\ exc' = e
    /\ hist' = [hist EXCEPT !.bodyExc = e, !.failedAt = k]
    /\ pc' = "except"

\* An exception raised inside the inner try (offload.py:260-300): the inner finally runs next
RaiseAwait(e) ==
    /\ exc' = e
    /\ hist' = [hist EXCEPT !.bodyExc = e, !.failedAt = k]
    /\ pc' = "killdev"

-----------------------------------------------------------------------------
\* run.py:162-163 the nested loops over offloadList and kernelList, for lists of
\* distinct names one of which has a single element: the pairs done so far (each
\* has an entry in the collection) share the offload or share the kernel
NextPair(o, kn) ==
    \/ \A i \in 1..Len(store) : store[i].offload = o /\ store[i].kernel # kn
    \/ \A i \in 1..Len(store) : store[i].kernel = kn /\ store[i].offload # o

\* run.py:162-193 the orchestrator takes the next (offload, kernel) pair, builds
\* kernelParams and calls offload.run
OrchNext ==
    /\ pc = "orch"
    /\ pairIdx < MaxPairs
    /\ \E o \in Offloads, kn \in Kernels, n \in 1..MaxParams :
        /\ NextPair(o, kn)
        /\ offload' = o
        /\ kernel' = kn
        /\ kernelParams' = [i \in 1..n |-> [id |-> i, drop |-> FALSE]]
        /\ paramList' = kernelParams'
        /\ runDev' = InitRunDev(o)
    /\ pairIdx' = pairIdx + 1
    /\ pc' = "override"
    /\ UNCHANGED <<devParamList, k, result, locals, procs, fs, exc,
                   retval, orch, hist>>
    /\ UNCHANGED lib

\* offload.py:357-374 NativeOffload.run, 394-397 PragmaOffload.run,
\* 405-435 SCIFOffload.run, 444-457 MYOOffload.run, and 135-136 of Offload.run
RunOverride ==
    /\ pc = "override"
    /\ \/ /\ offload \in {"coi", "auto", "local"}
          /\ devParamList' = paramList
          /\ pc' = "validate"
          /\ UNCHANGED <<paramList, runDev, exc, hist>>
       \/ /\ offload = "pragma"
          /\ \E found \in BOOLEAN :
               IF found
               THEN /\ hist' = [hist EXCEPT !.envChanged = TRUE]
                    /\ environ' = "pragma"
                    /\ devParamList' = paramList
                    /\ pc' = "validate"
                    /\ UNCHANGED exc
               ELSE /\ exc' = Exc("GetOffloadIndexError")
                    /\ pc' = "raised"
                    /\ UNCHANGED <<devParamList, hist, environ>>
          /\ UNCHANGED <<paramList, runDev>>
       \/ /\ offload \in {"native", "myo"}
          /\ \E dropMode \in paramDrop(kernel) :
               IF dropMode = "neg"
               THEN /\ exc' = Exc("ValueError")
                    /\ pc' = "raised"
                    /\ UNCHANGED lists
               ELSE /\ paramList' = IF dropMode = "pos" THEN DropAll(paramList)
                                    ELSE paramList
                    /\ devParamList' = IF offload = "myo" THEN DummyParams(paramList)
                                       ELSE paramList'
                    /\ pc' = "validate"
                    /\ UNCHANGED exc
          /\ UNCHANGED <<runDev, hist>>
       \/ /\ offload = "scif"
          /\ runDev' = (kernel # "hplinpack")
          /\ \E dropMode \in paramDrop(kernel) :
               /\ paramList' = IF dropMode = "neg" THEN DropAll(paramList) ELSE paramList
               /\ devParamList' = IF dropMode = "pos" THEN DropAll(paramList)
                                  ELSE paramList
          /\ pc' = "validate"
          /\ UNCHANGED <<exc, hist>>
    /\ offload # "pragma" => UNCHANGED environ
    /\ UNCHANGED <<pair, k, result, locals, procs, fs, retval, store, saved>>
    /\ UNCHANGED lib

\* offload.py:62-65, 114 _validate_mpi_requirements; sncMode is
\* Info().is_in_sub_numa_cluster_mode(), mpiAvailable is is_mpi_available()
ValidateMpi ==
    /\ pc = "validate"
    /\ \E sncMode \in BOOLEAN, mpiAvailable \in BOOLEAN :
        IF MpiMissing(kernel, sncMode, mpiAvailable)
        THEN /\ exc' = MissingDependenciesError("mpi")
             /\ hist' = [hist EXCEPT !.mpiMissing = TRUE]
             /\ pc' = "raised"
        ELSE /\ pc' = "resolve"
             /\ UNCHANGED <<exc, hist>>
    /\ UNCHANGED <<pair, lists, runDev, k, result, locals, procs, fs,
                   retval, orch>>
    /\ UNCHANGED lib

\* _xgemm.py:63-96, linpack.py:116-138, hplinpack.py:162-194, hpcg.py:85-109,
\* kernel.py:103-119 the offloads path_host_exec/path_dev_exec know an executable for
ExecOffloads(kn) ==
    CASE kn = "sgemm" -> {"native", "pragma", "auto", "local"}
      [] kn = "linpack" -> {"native", "auto", "local"}
      [] kn = "hplinpack" -> {"local", "native", "scif"}
      [] kn = "hpcg" -> {"local"}
      [] OTHER -> Offloads

\* offload.py:116-119, 130 what executable resolution can end in: a path, a
\* NoExecutableError, or None for an offload the kernel does not support
path_exec(kn, o) ==
    IF o \in ExecOffloads(kn) THEN {"path", "NoExecutableError"} ELSE {"unsupported"}

\* A variant of NoExecutable in which a missing executable is always a soft failure
NoExecutableAlwaysSoft(kn) == "return"

\* offload.py:125-128 what a missing executable leads to
NoExecutable(kn) == IF kn \in HardDepKernels THEN "raise" ELSE "return"

\* offload.py:115-133 executable resolution
ResolveExec ==
    /\ pc = "resolve"
    /\ \E found \in path_exec(kernel, offload) :
        \/ /\ found = "path"
           /\ pc' = "devidx"
           /\ UNCHANGED <<exc, retval, hist>>
        \/ /\ found = "NoExecutableError"
           /\ hist' = [hist EXCEPT !.execMissing = TRUE]
           /\ IF NoExecutable(kernel) = "raise"
              THEN /\ exc' = MissingDependenciesError("Linpack")
                   /\ pc' = "raised"
                   /\ UNCHANGED retval
              ELSE /\ retval' = <<>>
                   /\ pc' = "returned"
                   /\ UNCHANGED exc
        \/ /\ found = "unsupported"
           /\ retval' = <<>>
           /\ pc' = "returned"
           /\ UNCHANGED <<exc, hist>>
    /\ UNCHANGED <<pair, lists, runDev, k, result, locals, procs, fs, orch>>
    /\ UNCHANGED lib

\* offload.py:138-153 the device index parameter of non-native, non-local offloads
SetDeviceIndex ==
    /\ pc = "devidx"
    /\ IF offload \in {"native", "local"} \/ (Len(paramList) = 0 /\ Len(devParamList) = 0)
       THEN /\ pc' = "stage"
            /\ UNCHANGED <<exc, hist>>
       ELSE \E oc \in {"keep", "override", "NameError"} :
            \/ /\ oc = "keep"
               /\ pc' = "stage"
               /\ UNCHANGED <<exc, hist>>
            \/ /\ oc = "override"
               /\ hist' = [hist EXCEPT !.paramsModified = TRUE]
               /\ pc' = "stage"
               /\ UNCHANGED exc
            \/ /\ oc = "NameError"
               /\ exc' = Exc("NameError")
               /\ pc' = "raised"
               /\ UNCHANGED hist
    /\ UNCHANGED <<pair, lists, runDev, k, result, locals, procs, fs,
                   retval, orch>>
    /\ UNCHANGED lib

\* offload.py:157-161 the device paths of the executable and the auxiliary files
StagedFiles == {<<"exec", 0, 0>>} \cup path_aux_data(kernel, offload)

\* offload.py:155-162 staging of the executable and auxiliary files
Stage ==
    /\ pc = "stage"
    /\ IF runDev
       THEN /\ filesToRemove' = StagedFiles
            /\ \E copied \in SUBSET StagedFiles :
                 IF copied = StagedFiles
                 THEN /\ devFiles' = devFiles \cup copied
                      /\ hist' = [hist EXCEPT !.staged = TRUE, !.stageDone = TRUE]
                      /\ pc' = "loop"
                      /\ UNCHANGED exc
                 ELSE /\ devFiles' = devFiles \cup copied
                      /\ exc' = Exc("CopyError")
                      /\ hist' = [hist EXCEPT !.staged = (copied # {}),
                                              !.bodyExc = Exc("CopyError")]
                      /\ pc' = "except"
       ELSE /\ pc' = "loop"
            /\ UNCHANGED <<filesToRemove, devFiles, exc, hist>>
    /\ UNCHANGED <<pair, lists, runDev, k, result, devParamFile,
                   hostParamFile, devParamFileOnHost, procs, dirs, files,
                   workDir, retval, orch>>
    /\ UNCHANGED lib

\* The first step of one parameter set on the host side (offload.py:213-232)
HostFirst == IF param_type(kernel) = "file" THEN "hostparam" ELSE "hostlaunch"

\* The first step of one parameter set (offload.py:176-198)
IterFirst ==
    IF runDev
    THEN (IF param_type(kernel) = "file" THEN "devparam" ELSE "devlaunch")
    ELSE HostFirst

\* offload.py:164 the head of the loop over the parameter sets
LoopHead ==
    /\ pc = "loop"
    /\ IF k <= ZipLen
       THEN /\ hist' = [hist EXCEPT !.order = Append(@, hostParam.id)]
            /\ pc' = IterFirst
       ELSE /\ pc' = "finally"
            /\ UNCHANGED hist
    /\ UNCHANGED <<pair, lists, runDev, k, result, locals, procs, fs,
                   exc, retval, orch>>
    /\ UNCHANGED lib

-----------------------------------------------------------------------------
\* linpack.py:223-224, hplinpack.py:273-274, hpcg.py:244-248 the scratch directory
\* param_file writes into: a fresh one, except that hpcg keeps its first one
ScratchDir(side) ==
    IF kernel = "hpcg" /\ workDir[kernel] # NoDir THEN workDir[kernel]
    ELSE <<side, pairIdx, k>>

\* linpack.py:207-229, hplinpack.py:265-279, hpcg.py:237-253 param_file
param_file(side) ==
    /\ dirs' = dirs \cup {ScratchDir(side)}
    /\ files' = files \cup {ScratchDir(side)}
    /\ workDir' = IF kernel \in {"hplinpack", "hpcg"}
                  THEN [workDir EXCEPT ![kernel] = ScratchDir(side)]
                  ELSE workDir

\* offload.py:185 the device path of the parameter file: the working directory plus
\* its base name (linpack.py:223 a fresh name, hplinpack.py:274 and hpcg.py:248 a fixed one)
DevParamPath ==
    IF kernel = "linpack" THEN <<"par", pairIdx, k>> ELSE <<"par", 0, 0>>

\* offload.py:183-185 the device parameter file is written on the host
DevParamFile ==
    /\ pc = "devparam"
    /\ \E ok \in BOOLEAN :
        IF ok
        THEN /\ param_file("dev")
             /\ devParamFileOnHost' = ScratchDir("dev")
             /\ devParamFile' = StrOf(DevParamPath)
             /\ hist' = [hist EXCEPT !.created = @ \cup {ScratchDir("dev")}]
             /\ pc' = "devcopy"
             /\ UNCHANGED exc
        ELSE /\ RaiseBody(Exc("RuntimeError"))
             /\ UNCHANGED <<dirs, files, workDir, devParamFileOnHost, devParamFile>>
    /\ UNCHANGED <<pair, lists, runDev, k, result, filesToRemove,
                   hostParamFile, procs, devFiles, retval, orch>>
    /\ UNCHANGED lib

\* offload.py:186 the parameter file is copied to the device
DevParamCopy ==
    /\ pc = "devcopy"
    /\ \E ok \in BOOLEAN :
        IF ok
        THEN /\ devFiles' = devFiles \cup devParamFile.names
             /\ hist' = [hist EXCEPT !.staged = TRUE]
             /\ pc' = "devrmtree"
             /\ UNCHANGED exc
        ELSE /\ RaiseBody(Exc("CopyError"))
             /\ UNCHANGED devFiles
    /\ UNCHANGED <<pair, lists, runDev, k, result, locals, procs, dirs,
                   files, workDir, retval, orch>>
    /\ UNCHANGED lib

\* offload.py:187-194 the host copy is removed and devParamFile becomes a list
DevParamRmtree ==
    /\ pc = "devrmtree"
    /\ \E ok \in BOOLEAN :
        IF ok
        THEN /\ dirs' = dirs \ {devParamFileOnHost}
             /\ files' = files \ {devParamFileOnHost}
             /\ devParamFile' = ListOf(devParamFile.names)
             /\ pc' = "devlaunch"
             /\ UNCHANGED <<exc, hist>>
        ELSE /\ RaiseBody(Exc("OSError"))
             /\ UNCHANGED <<dirs, files, devParamFile>>
    /\ UNCHANGED <<pair, lists, runDev, k, result, filesToRemove,
                   hostParamFile, devParamFileOnHost, procs, devFiles, workDir,
                   retval, orch>>
    /\ UNCHANGED lib

\* offload.py:45-59 _run_workload: a permission error is reported as such
LaunchError(strerror) ==
    IF strerror = "Permission denied" THEN Exc("NoExecutionPermission")
    ELSE Exc("OSError")

LaunchOutcomes == {"ok", "Permission denied", "No such file or directory"}

\* A variant of AfterDevLaunch in which the device process is awaited at once
AfterDevLaunchAwaitsFirst == "awaitdev"

\* Where Offload.run goes once the device process is launched (offload.py:213)
AfterDevLaunch == IF RunHost(offload) THEN HostFirst ELSE "awaitdev"

\* offload.py:200-204 the device command line
DevCommand ==
    <<"cd", "exec">> \o
    (IF param_type(kernel) = "file"
     THEN (IF kernel # "hplinpack" THEN <<"paramfile">> ELSE <<>>)
     ELSE <<"params">>)

\* offload.py:200-211 the device process is launched
DevLaunch ==
    /\ pc = "devlaunch"
    /\ \E oc \in LaunchOutcomes :
        IF oc = "ok"
        THEN /\ devProc' = [pid |-> <<"dev", pairIdx, k>>, reaped |-> FALSE, rc |-> 0]
             /\ running' = running \cup {<<"dev", pairIdx, k>>}
             /\ hist' = [hist EXCEPT !.launched = @ \cup {<<"dev", pairIdx, k>>}]
             /\ pc' = AfterDevLaunch
             /\ UNCHANGED exc
        ELSE /\ RaiseBody(LaunchError(oc))
             /\ UNCHANGED <<devProc, running>>
    /\ UNCHANGED <<pair, lists, runDev, k, result, locals, hostProc,
                   hostArgs, fs, retval, orch>>
    /\ UNCHANGED lib

\* offload.py:220-228 the host parameter file is written
HostParamFile ==
    /\ pc = "hostparam"
    /\ \E ok \in BOOLEAN :
        IF ok
        THEN /\ param_file("host")
             /\ hostParamFile' = {ScratchDir("host")}
             /\ hist' = [hist EXCEPT !.created = @ \cup {ScratchDir("host")}]
             /\ pc' = "hostlaunch"
             /\ UNCHANGED exc
        ELSE /\ RaiseBody(Exc("RuntimeError"))
             /\ UNCHANGED <<dirs, files, workDir, hostParamFile>>
    /\ UNCHANGED <<pair, lists, runDev, k, result, filesToRemove,
                   devParamFile, devParamFileOnHost, procs, devFiles, retval, orch>>
    /\ UNCHANGED lib

\* kernel.py:456-462, hpcg.py:228-234 get_process_modifiers
get_process_modifiers(kn) == IF kn = "hpcg" THEN <<"mpirun">> ELSE <<>>

\* offload.py:213-233, 252 the host command line: modifiers, executable, arguments
HostCommand ==
    get_process_modifiers(kernel) \o <<"exec">> \o
    (IF param_type(kernel) = "file"
     THEN (IF kernel # "hplinpack" THEN <<"paramfile">> ELSE <<>>)
     ELSE <<"params">>)

\* offload.py:234 hostProcEnv = copy.deepcopy(os.environ): the host process gets
\* the OFFLOAD_DEVICES of the orchestrator process
hostProcEnv == environ

\* offload.py:233-259 the host process is launched
HostLaunch ==
    /\ pc = "hostlaunch"
    /\ hostArgs' = HostCommand
    /\ \E oc \in LaunchOutcomes :
        IF oc = "ok"
        THEN /\ hostProc' = [pid |-> <<"host", pairIdx, k>>, reaped |-> FALSE, rc |-> 0]
             /\ running' = running \cup {<<"host", pairIdx, k>>}
             /\ hist' = [hist EXCEPT !.launched = @ \cup {<<"host", pairIdx, k>>},
                                     !.hostEnv = hostProcEnv]
             /\ pc' = IF runDev THEN "awaitdev" ELSE "awaithost"
             /\ UNCHANGED exc
        ELSE /\ RaiseBody(LaunchError(oc))
             /\ UNCHANGED <<hostProc, running>>
    /\ UNCHANGED <<pair, lists, runDev, k, result, locals, devProc, fs,
                   retval, orch>>
    /\ UNCHANGED lib

\* offload.py:266-267 a device process that exits non-zero
DevFailure(rc, cmd) == CalledProcessError(rc, cmd)

\* offload.py:262-269 the device process is awaited
AwaitDev ==
    /\ pc = "awaitdev"
    /\ \/ \E rc \in ExitCodes :
            /\ devProc' = [devProc EXCEPT !.reaped = TRUE, !.rc = rc]
            /\ running' = running \ {devProc.pid}
            /\ IF rc # 0
               THEN RaiseAwait(DevFailure(rc, DevCommand))
               ELSE /\ pc' = IF RunHost(offload) THEN "awaithost" ELSE "killdev"
                    /\ UNCHANGED <<exc, hist>>
       \/ /\ RaiseAwait(Exc("KeyboardInterrupt"))
          /\ UNCHANGED <<devProc, running>>
    /\ UNCHANGED <<pair, lists, runDev, k, result, locals, hostProc,
                   hostArgs, fs, retval, orch>>
    /\ UNCHANGED lib

\* A variant of HostFailure without the special case of exit code 127
HostFailureGeneric(rc, cmd) == CalledProcessError(rc, cmd)

\* offload.py:291-297 a host process that exits non-zero
HostFailure(rc, cmd) ==
    IF rc = 127 THEN MissingDependenciesError("redist")
    ELSE CalledProcessError(rc, cmd)

\* offload.py:270-300 the host process is awaited
AwaitHost ==
    /\ pc = "awaithost"
    /\ \/ \E rc \in ExitCodes :
            /\ hostProc' = [hostProc EXCEPT !.reaped = TRUE, !.rc = rc]
            /\ running' = running \ {hostProc.pid}
            /\ IF rc # 0
               THEN RaiseAwait(HostFailure(rc, hostArgs))
               ELSE /\ pc' = "killdev"
                    /\ UNCHANGED <<exc, hist>>
       \/ /\ RaiseAwait(Exc("KeyboardInterrupt"))
          /\ UNCHANGED <<hostProc, running>>
    /\ UNCHANGED <<pair, lists, runDev, k, result, locals, devProc,
                   hostArgs, fs, retval, orch>>
    /\ UNCHANGED lib

-----------------------------------------------------------------------------
\* offload.py:302-309 a device process that was not awaited is killed
KillDev ==
    /\ pc = "killdev"
    /\ IF runDev /\ ~devProc.reaped
       THEN \E ok \in BOOLEAN :
            IF ok
            THEN /\ running' = running \ {devProc.pid}
                 /\ pc' = "killhost"
                 /\ UNCHANGED <<exc, hist>>
            ELSE /\ exc' = Exc("OSError")
                 /\ hist' = [hist EXCEPT !.cleanupFailed = TRUE]
                 /\ pc' = "except"
                 /\ UNCHANGED running
       ELSE /\ pc' = "killhost"
            /\ UNCHANGED <<running, exc, hist>>
    /\ UNCHANGED <<pair, lists, runDev, k, result, locals, devProc,
                   hostProc, hostArgs, fs, retval, orch>>
    /\ UNCHANGED lib

\* offload.py:310-311 a host process that was not awaited is killed
KillHost ==
    /\ pc = "killhost"
    /\ running' = IF RunHost(offload) /\ ~hostProc.reaped
                  THEN running \ {hostProc.pid} ELSE running
    /\ pc' = "cleanup"
    /\ UNCHANGED <<pair, lists, runDev, k, result, locals, devProc,
                   hostProc, hostArgs, fs, exc, retval, orch, hist>>
    /\ UNCHANGED lib

\* kernel.py:436-447 what a clean_up call can end in: os.unlink raises when it fails
\* (always, for a file that is gone), and so does the launch of the remote rm
CleanUpOutcomes(local, remote) ==
    (IF local \subseteq files THEN {"ok"} ELSE {})
    \cup (IF local # {} THEN {"unlink failed"} ELSE {})
    \cup (IF remote # {} /\ local \subseteq files THEN {"rm not launched"} ELSE {})

\* kernel.py:440-447 the remote files whose rm command clean_up gets to
RmReached(remote, oc) == IF oc = "unlink failed" THEN {} ELSE remote

\* hplinpack.py:294-300 clean_up of hplinpack also removes its working directory
RemovesWorkDir(oc) == oc = "ok" /\ kernel = "hplinpack" /\ workDir[kernel] \in dirs

\* kernel.py:430-447 Kernel.clean_up(local_files, remote_files, remote_shell) and
\* hplinpack.py:294-300
clean_up(local, remote, oc) ==
    /\ files' = (IF oc = "unlink failed" THEN files ELSE files \ local)
                \ (IF RemovesWorkDir(oc) THEN {workDir[kernel]} ELSE {})
    /\ dirs' = IF RemovesWorkDir(oc) THEN dirs \ {workDir[kernel]} ELSE dirs
    /\ devFiles' = IF oc = "ok" THEN devFiles \ remote ELSE devFiles
    /\ UNCHANGED workDir

\* offload.py:312 clean_up at the end of one parameter set
InnerCleanUp ==
    /\ pc = "cleanup"
    /\ \E oc \in CleanUpOutcomes(hostParamFile, devParamFile.names) :
        /\ clean_up(hostParamFile, devParamFile.names, oc)
        /\ hist' = [hist EXCEPT !.rmIssued = @ \cup RmReached(devParamFile.names, oc),
                                !.cleanupFailed = @ \/ oc # "ok"]
        /\ IF oc = "ok"
           THEN /\ pc' = IF exc = NoExc THEN "parse" ELSE "except"
                /\ UNCHANGED exc
           ELSE /\ exc' = Exc("OSError")
                /\ pc' = "except"
    /\ UNCHANGED <<pair, lists, runDev, k, result, locals, procs,
                   retval, orch>>
    /\ UNCHANGED lib

\* A variant of NewStats that keeps the device parameter set
NewStatsOfDevParam(hostPar, devPar) == [params |-> devPar]

\* offload.py:323 the Stats of one parameter set holds the host parameter set
NewStats(hostPar, devPar) == [params |-> hostPar]

\* offload.py:314-326 the output is parsed into a Stats that is appended to result
Parse ==
    /\ pc = "parse"
    /\ \E ok \in BOOLEAN :
        IF ok
        THEN /\ result' = Append(result, NewStats(hostParam, devParam))
             /\ k' = k + 1
             /\ pc' = "loop"
             /\ UNCHANGED <<exc, hist>>
        ELSE /\ RaiseBody(Exc("SelfCheckError"))
             /\ UNCHANGED <<result, k>>
    /\ UNCHANGED <<pair, lists, runDev, locals, procs, fs, retval, orch>>
    /\ UNCHANGED lib

\* offload.py:327-329 the results so far are attached to the exception
OuterExcept ==
    /\ pc = "except"
    /\ exc' = [exc EXCEPT !.hasPartial = TRUE, !.partial = result]
    /\ pc' = "finally"
    /\ UNCHANGED <<pair, lists, runDev, k, result, locals, procs, fs,
                   retval, orch, hist>>
    /\ UNCHANGED lib

\* offload.py:330-331 the staged files are removed; filesToRemove + devParamFile
\* is a TypeError while devParamFile is a str
OuterFinally ==
    /\ pc = "finally"
    /\ IF devParamFile.kind = "str"
       THEN /\ exc' = Exc("TypeError")
            /\ hist' = [hist EXCEPT !.cleanupFailed = TRUE]
            /\ pc' = "raised"
            /\ UNCHANGED fs
       ELSE \E oc \in CleanUpOutcomes({}, filesToRemove \cup devParamFile.names) :
            /\ clean_up({}, filesToRemove \cup devParamFile.names, oc)
            /\ hist' = [hist EXCEPT !.rmIssued = @ \cup
                                       RmReached(filesToRemove \cup devParamFile.names, oc),
                                    !.cleanupFailed = @ \/ oc # "ok"]
            /\ IF oc = "ok"
               THEN /\ pc' = IF exc = NoExc THEN "peak" ELSE "raised"
                    /\ UNCHANGED exc
               ELSE /\ exc' = Exc("OSError")
                    /\ pc' = "raised"
    /\ UNCHANGED <<pair, lists, runDev, k, result, locals, procs,
                   retval, orch>>
    /\ UNCHANGED lib

\* offload.py:333-349 peak selection (failures swallowed) and return
Return ==
    /\ pc = "peak"
    /\ retval' = result
    /\ pc' = "returned"
    /\ UNCHANGED <<pair, lists, runDev, k, result, locals, procs, fs,
                   exc, orch, hist>>
    /\ UNCHANGED lib

-----------------------------------------------------------------------------
\* offload.py:101-105 the locals of Offload.run do not outlive the call
RunEnds ==
    /\ kernelParams' = <<>>
    /\ paramList' = <<>>
    /\ devParamList' = <<>>
    /\ runDev' = FALSE
    /\ k' = 1
    /\ result' = <<>>
    /\ filesToRemove' = {}
    /\ devParamFile' = ListOf({})
    /\ hostParamFile' = {}
    /\ devParamFileOnHost' = NoDir
    /\ hostArgs' = <<>>
    /\ devProc' = NoProc
    /\ hostProc' = NoProc
    /\ retval' = <<>>
    /\ hist' = NoHist

\* run.py:202 the result of offload.run is appended to the collection
OrchAppend ==
    /\ pc = "returned"
    /\ store' = append(store, kernel, offload, retval)
    /\ pc' = "orch"
    /\ RunEnds
    /\ UNCHANGED <<pairIdx, offload, kernel, running, fs, exc, saved, environ>>
    /\ UNCHANGED lib

\* run.py:194-201 partial results are recorded and written, the error is re-raised
OrchExcept ==
    /\ pc = "raised"
    /\ store' = IF exc.hasPartial THEN append(store, kernel, offload, exc.partial)
                ELSE store
    /\ \E outDir \in BOOLEAN : saved' = Pickle(outDir, store')
    /\ pc' = "aborted"
    /\ RunEnds
    /\ UNCHANGED <<pairIdx, offload, kernel, running, fs, exc, environ>>
    /\ UNCHANGED lib

\* run.py:203-211 all pairs are done: the collection is written
OrchFinish ==
    /\ pc = "orch"
    /\ pairIdx > 0
    /\ \E outDir \in BOOLEAN : saved' = Pickle(outDir, store)
    /\ pc' = "finished"
    /\ UNCHANGED <<pair, lists, runDev, k, result, locals, procs, fs,
                   exc, retval, store, environ, hist>>
    /\ UNCHANGED lib

Next ==
    \/ OrchNext \/ RunOverride \/ ValidateMpi \/ ResolveExec \/ SetDeviceIndex
    \/ Stage \/ LoopHead \/ DevParamFile \/ DevParamCopy \/ DevParamRmtree
    \/ DevLaunch \/ HostParamFile \/ HostLaunch \/ AwaitDev \/ AwaitHost
    \/ KillDev \/ KillHost \/ InnerCleanUp \/ Parse \/ OuterExcept
    \/ OuterFinally \/ Return \/ OrchAppend \/ OrchExcept \/ OrchFinish

Spec == Init /\ [][Next]_vars

\* run.py:162-193 with offloadList and kernelList of one element each: the
\* orchestrator makes a single Offload.run call
OrchOnly ==
    /\ pairIdx = 0
    /\ OrchNext

NextRun ==
    \/ OrchOnly \/ RunOverride \/ ValidateMpi \/ ResolveExec \/ SetDeviceIndex
    \/ Stage \/ LoopHead \/ DevParamFile \/ DevParamCopy \/ DevParamRmtree
    \/ DevLaunch \/ HostParamFile \/ HostLaunch \/ AwaitDev \/ AwaitHost
    \/ KillDev \/ KillHost \/ InnerCleanUp \/ Parse \/ OuterExcept
    \/ OuterFinally \/ Return \/ OrchAppend \/ OrchExcept \/ OrchFinish

SpecRun == Init /\ [][NextRun]_vars

-----------------------------------------------------------------------------
\* micp/params.py.  A string is a sequence of characters, a token list a
\* sequence of strings, a Params object a record on the heap.

\* the schema paramNames of the Params objects
ParamNames == << <<"a", "l">>, <<"b", "e">>, <<"g", "a">> >>

NumNames == Len(ParamNames)

\* params.py:66 the letters of the alphabet in use that [a-zA-Z] matches
Letters == {"a", "b", "e", "g", "l", "x", "h", "p"}

\* str.startswith
startswith(s, prefix) ==
    Len(s) >= Len(prefix) /\ SubSeq(s, 1, Len(prefix)) = prefix

\* params.py:66 re.compile('^-[a-zA-Z]$').match
is_short_option(s) == Len(s) = 2 /\ s[1] = "-" /\ s[2] \in Letters

\* ' '.join(list)
RECURSIVE join(_)
join(list) ==
    IF list = <<>> THEN <<>>
    ELSE IF Len(list) = 1 THEN list[1]
    ELSE list[1] \o <<" ">> \o join(Tail(list))

RECURSIVE SplitFrom(_, _, _)
SplitFrom(s, cur, acc) ==
    IF s = <<>> THEN (IF cur = <<>> THEN acc ELSE Append(acc, cur))
    ELSE IF Head(s) = " "
         THEN SplitFrom(Tail(s), <<>>, IF cur = <<>> THEN acc ELSE Append(acc, cur))
         ELSE SplitFrom(Tail(s), Append(cur, Head(s)), acc)

\* str.split() and, for text without quotes, shlex.split(str): split on runs
\* of blanks
split(s) == SplitFrom(s, <<>>, <<>>)

\* params.py:54 self._params = dict([(pn, None) for pn in paramNames])
NoValues == [i \in 1..NumNames |-> None]

\* the position of a name in the schema, 0 for a name that is not in it
NameIndex(name) ==
    IF \E i \in 1..NumNames : ParamNames[i] = name
    THEN CHOOSE i \in 1..NumNames : ParamNames[i] = name
    ELSE 0

\* a Params object; err names the exception its constructor raised
ParamsObject(vals, quiet) == [err |-> "none", vals |-> vals, quiet |-> quiet]
Raised(e) == [err |-> e, vals |-> NoValues, quiet |-> {}]

\* params.py:73-107 the loop over the tokens when one of them is a flag
RECURSIVE ParseFlags(_, _, _)
ParseFlags(params, i, vals) ==
    IF i > Len(params) THEN [err |-> "none", vals |-> vals]
    ELSE IF startswith(params[i], <<"-", "-">>)
    THEN LET thisName == SubSeq(params[i], 3, Len(params[i])) IN
         IF thisName = <<"h", "e", "l", "p">> THEN [err |-> "MicpParamsHelpError", vals |-> vals]
         ELSE IF NameIndex(thisName) = 0 THEN [err |-> "UnknownParamError", vals |-> vals]
         ELSE IF i + 1 <= Len(params) /\ ~startswith(params[i + 1], <<"-">>)
              THEN ParseFlags(params, i + 2, [vals EXCEPT ![NameIndex(thisName)] = params[i + 1]])
              ELSE ParseFlags(params, i + 1, [vals EXCEPT ![NameIndex(thisName)] = <<>>])
    ELSE IF is_short_option(params[i])
    THEN LET thisFlag == params[i][2]
             thisName == {j \in 1..NumNames : startswith(ParamNames[j], <<thisFlag>>)}
         IN  IF thisFlag = "h" THEN [err |-> "MicpParamsHelpError", vals |-> vals]
             ELSE IF thisName = {} THEN [err |-> "UnknownParamError", vals |-> vals]
             ELSE IF Cardinality(thisName) > 1 THEN [err |-> "NameError", vals |-> vals]
             ELSE LET j == CHOOSE j \in thisName : TRUE IN
                  IF i + 1 <= Len(params) /\ ~is_short_option(params[i + 1])
                  THEN ParseFlags(params, i + 2, [vals EXCEPT ![j] = params[i + 1]])
                  ELSE ParseFlags(params, i + 1, [vals EXCEPT ![j] = <<>>])
    ELSE [err |-> "UnknownParamError", vals |-> vals]

\* params.py:69-71 without a flag among the tokens the i-th token is the
\* value of the i-th name
Positional(params) ==
    [err |-> "none",
     vals |-> [i \in 1..NumNames |-> IF i <= Len(params) THEN params[i] ELSE None]]

\* params.py:52-115 Params.__init__ of a token list
Params(params, dflt, paramQuiet) ==
    LET flagged == \E i \in 1..Len(params) :
                       startswith(params[i], <<"-", "-">>) \/ is_short_option(params[i])
        parsed == IF flagged THEN ParseFlags(params, 1, NoValues) ELSE Positional(params)
    IN  IF parsed.err # "none" THEN Raised(parsed.err)
        ELSE ParamsObject([i \in 1..NumNames |->
                              IF parsed.vals[i] = None THEN dflt[i] ELSE parsed.vals[i]],
                          paramQuiet)

\* the schema positions in order
Positions == [i \in 1..NumNames |-> i]

\* params.py:117-120 Params.__str__ lists every parameter that has a value
str(o) ==
    LET shown(i) == o.vals[i] # None
        idx == SelectSeq(Positions, shown)
    IN  join([n \in 1..Len(idx) |-> <<"-", "-">> \o ParamNames[idx[n]] \o <<" ">> \o o.vals[idx[n]]])

\* A variant of Shown in which the quiet parameters are shown as well
ShownQuietToo(o) ==
    LET shown(i) == o.vals[i] # None
    IN  SelectSeq(Positions, shown)

\* params.py:131-132, 143-144, 151-152 the parameters a view shows
Shown(o) ==
    LET shown(i) == o.vals[i] # None /\ ParamNames[i] \notin o.quiet
    IN  SelectSeq(Positions, shown)

\* params.py:129-132 Params.pos_list
pos_list(o) ==
    [n \in 1..Len(Shown(o)) |->
        IF o.vals[Shown(o)[n]] # <<>> THEN o.vals[Shown(o)[n]] ELSE <<"1">>]

\* params.py:135-136 Params.pos_str
pos_str(o) == join(pos_list(o))

\* params.py:141-144 Params.value_str
value_str(o) ==
    join([n \in 1..Len(Shown(o)) |->
            <<"-", "-">> \o ParamNames[Shown(o)[n]] \o <<" ">> \o o.vals[Shown(o)[n]]])

\* params.py:138-139 Params.value_list
value_list(o) == split(value_str(o))

\* params.py:149-152 Params.flag_str
flag_str(o) ==
    join([n \in 1..Len(Shown(o)) |->
            <<"-", ParamNames[Shown(o)[n]][1]>> \o <<" ">> \o o.vals[Shown(o)[n]]])

\* params.py:146-147 Params.flag_list
flag_list(o) == split(flag_str(o))

\* params.py:157-161 Params.get_named of the name at schema position i
get_named(o, i) == o.vals[i]

-----------------------------------------------------------------------------
\* Callers of micp/params.py

\* tokens a caller passes: long flags, short flags and values
TokenAlphabet ==
    {<<"-", "-", "a", "l">>, <<"-", "-", "b", "e">>, <<"-", "a">>, <<"-", "b">>,
     <<"1">>, <<"-", "1">>}

TokenLists == UNION {[1..n -> TokenAlphabet] : n \in 0..MaxTokens}

\* the defaults dictionaries in use: a missing key leaves None (params.py:110-115)
DefaultSets ==
    {<<None, None, None>>, <<None, <<"2">>, None>>, <<None, <<"-", "1">>, None>>}

\* the paramQuiet lists in use
QuietSets == {{}, {ParamNames[3]}}

\* values handed to set_named
SetValues == {<<"9">>}

InitParams ==
    /\ InitRun
    /\ tokens \in TokenLists
    /\ defaults \in DefaultSets
    /\ heap = <<>>
    /\ paramsDrop = NoParamsDrop
    /\ phase = "start"
    /\ launch = NoLaunch
    /\ cat = NoCat
    /\ cmp = NoCmp

\* params.py:52-115 p = Params(tokens, ParamNames, defaults, paramQuiet)
NewParams ==
    /\ phase = "start"
    /\ \E paramQuiet \in QuietSets : heap' = <<Params(tokens, defaults, paramQuiet)>>
    /\ phase' = IF heap'[1].err = "none" THEN "built" ELSE "raised"
    /\ UNCHANGED <<tokens, defaults, paramsDrop, launch, rest>>

\* params.py:141-144 and 59-61 Params(p.value_str(), ParamNames, defaults): a
\* str argument is split with shlex
RoundTrip ==
    /\ phase = "built"
    /\ heap' = Append(heap, Params(split(value_str(heap[1])), defaults, {}))
    /\ phase' = "reparsed"
    /\ UNCHANGED <<tokens, defaults, paramsDrop, launch, rest>>

\* A variant of deepcopy in which the copy is the object itself
deepcopyShared(h, ref) == [heap |-> h, ref |-> ref]

\* params.py:409 copy.deepcopy(params) makes a new object with equal contents
deepcopy(h, ref) == [heap |-> Append(h, h[ref]), ref |-> Len(h) + 1]

\* params.py:413 params._paramNames[paramMax:paramMax + numDrop]
QuietSlice(paramMax, numDrop) ==
    {ParamNames[i] : i \in {j \in 1..NumNames : paramMax < j /\ j <= paramMax + numDrop}}

\* params.py:408-413 ParamsDrop(p, numDrop, paramMax)
NewParamsDrop ==
    /\ phase = "built"
    /\ \E numDrop \in 0..MaxDrop, paramMax \in 0..NumNames :
        LET c == deepcopy(heap, 1) IN
        IF numDrop < 1
        THEN /\ heap' = c.heap
             /\ paramsDrop' = [ref |-> 0, numDrop |-> numDrop, paramMax |-> paramMax]
             /\ phase' = "ValueError"
        ELSE /\ heap' = [c.heap EXCEPT ![c.ref].quiet = QuietSlice(paramMax, numDrop)]
             /\ paramsDrop' = [ref |-> c.ref, numDrop |-> numDrop, paramMax |-> paramMax]
             /\ phase' = "dropped"
    /\ UNCHANGED <<tokens, defaults, launch, rest>>

\* params.py:449-450 and 163-167 ParamsDrop.set_named(name, value)
set_named ==
    /\ phase = "dropped"
    /\ \E i \in 1..NumNames, value \in SetValues :
        heap' = [heap EXCEPT ![paramsDrop.ref].vals[i] = value]
    /\ UNCHANGED <<tokens, defaults, paramsDrop, phase, launch, rest>>

NextParams == NewParams \/ RoundTrip \/ NewParamsDrop \/ set_named

SpecParams == InitParams /\ [][NextParams]_vars

-----------------------------------------------------------------------------
\* offload.py:176-259 the command line and the environment of the kernel
\* processes, for the kernels of micp/kernels

\* str.upper on the letters of the schema names
upper(s) ==
    [i \in 1..Len(s) |->
        CASE s[i] = "a" -> "A" [] s[i] = "b" -> "B" [] s[i] = "e" -> "E"
          [] s[i] = "g" -> "G" [] s[i] = "l" -> "L" [] OTHER -> s[i]]

\* offload.py:207, 237 the schema name that stands for omp_num_threads and
\* hpl_numthreads
ThreadCountNames == {ParamNames[3]}

\* kernel.py:211-223, linpack.py:237-238, hplinpack.py:290-292, stream.py:86-87,
\* mkl_conv.py:80-81, libxsmm_conv.py:73-74 ("other" stands for the last three)
param_for_env(kn) ==
    IF kn \in {"linpack", "hplinpack", "other"} THEN <<ParamNames[3]>> ELSE <<>>

\* stream.py:78, mkl_conv.py:72, libxsmm_conv.py:65 and the offload_methods of
\* the other kernels
EnvOffloads(kn) == IF kn = "other" THEN {"native", "local"} ELSE ExecOffloads(kn)

\* stream.py:81, mkl_conv.py:75, libxsmm_conv.py:68 and param_type of the
\* other kernels
EnvTypes(kn) == IF kn = "other" THEN {"value", "pos"} ELSE {param_type(kn)}

\* offload.py:416-419 SCIFOffload.run runs no device process for hplinpack
EnvRunDev(o, kn) == InitRunDev(o) /\ ~(o = "scif" /\ kn = "hplinpack")

\* dict[key] = value
Put(env, key, value) == (key :> value) @@ env

\* linpack.py:179-181 and kernel.py:319-324 environment_dev
environment_dev(kn) ==
    IF kn = "linpack" THEN (<<"KMP_AFFINITY">> :> <<"explicit">>) ELSE <<>>

\* linpack.py:183-204 and kernel.py:312-317 environment_host
environment_host(kn, selfboot) ==
    IF kn # "linpack" THEN <<>>
    ELSE IF selfboot
         THEN (<<"KMP_AFFINITY">> :> <<"compact">>) @@ (upper(ParamNames[3]) :> <<"8">>)
         ELSE (<<"KMP_AFFINITY">> :> <<"compact">>) @@ (<<"MIC_ENV_PREFIX">> :> <<"MIC">>)
              @@ ((<<"MIC_">> \o upper(ParamNames[3])) :> <<"7">>)

\* offload.py:205-210 the environment of the device process
RECURSIVE devProcEnv(_, _, _)
devProcEnv(names, devPar, env) ==
    IF names = <<>> THEN env
    ELSE LET pn == Head(names) IN
         devProcEnv(Tail(names), devPar,
                    IF pn \in ThreadCountNames
                    THEN Put(env, upper(pn), get_named(devPar, NameIndex(pn)))
                    ELSE Put(env, pn, get_named(devPar, NameIndex(pn))))

\* offload.py:242 '{0}c,1t'.format(value)
HwSubset(value) == value \o <<"c", ",", "1", "t">>

\* offload.py:236-250 the variables the host process gets from the parameters
RECURSIVE confProcEnv(_, _, _, _, _)
confProcEnv(names, hostPar, selfboot, snc, env) ==
    IF names = <<>> THEN env
    ELSE LET pn == Head(names)
             value == get_named(hostPar, NameIndex(pn))
         IN  confProcEnv(Tail(names), hostPar, selfboot, snc,
                IF pn \in ThreadCountNames
                THEN IF selfboot
                     THEN IF snc THEN Put(env, <<"KMP_HW_SUBSET">>, HwSubset(value))
                          ELSE Put(env, upper(pn), value)
                     ELSE Put(Put(env, <<"MIC_ENV_PREFIX">>, <<"MIC">>),
                              <<"MIC_">> \o upper(pn), value)
                ELSE Put(env, pn, value))

\* offload.py:177-198 devArgs
devArgs(kn, type, devPar) ==
    IF type = "value" THEN value_str(devPar)
    ELSE IF type = "flag" THEN flag_str(devPar)
    ELSE IF type = "pos" THEN pos_str(devPar)
    ELSE IF kn # "hplinpack" THEN <<"paramfile">> ELSE <<>>

\* offload.py:200-203 the device command line
DevCommandLine(kn, type, devPar) ==
    <<"cd">> \o <<" ">> \o <<"exec">> \o <<" ">> \o devArgs(kn, type, devPar)

\* offload.py:214-233, 252 hostArgs
HostCommandLine(kn, type, hostPar) ==
    [i \in 1..Len(get_process_modifiers(kn)) |-> <<get_process_modifiers(kn)[i]>>]
    \o << <<"exec">> >>
    \o (IF type = "value" THEN value_list(hostPar)
        ELSE IF type = "flag" THEN flag_list(hostPar)
        ELSE IF type = "pos" THEN pos_list(hostPar)
        ELSE IF kn # "hplinpack" THEN << <<"paramfile">> >> ELSE <<>>)

\* the kernel, offload method and platform of a launch
Launches ==
    {[kernel |-> kn, offload |-> o, type |-> t, selfboot |-> sb, snc |-> sn,
      dev |-> NoProcess, host |-> NoProcess] :
        kn \in {"linpack", "hplinpack", "sgemm", "other"}, o \in Offloads,
        t \in {"file", "flag", "value", "pos"}, sb \in BOOLEAN, sn \in BOOLEAN}

InitEnv ==
    /\ InitRun
    /\ tokens \in TokenLists
    /\ defaults \in DefaultSets
    /\ heap = <<>>
    /\ paramsDrop = NoParamsDrop
    /\ phase = "start"
    /\ launch \in {l \in Launches :
                    /\ l.offload \in EnvOffloads(l.kernel)
                    /\ l.type \in EnvTypes(l.kernel)
                    /\ l.snc => l.selfboot}
    /\ cat = NoCat
    /\ cmp = NoCmp

\* the elements of a list
Range(list) == {list[i] : i \in 1..Len(list)}

\* run.py:171-183 kernelParams: the parameters for the environment are quiet
KernelParams ==
    /\ phase = "start"
    /\ heap' = <<Params(tokens, defaults, Range(param_for_env(launch.kernel)))>>
    /\ phase' = IF heap'[1].err = "none" THEN "built" ELSE "raised"
    /\ UNCHANGED <<tokens, defaults, paramsDrop, launch, rest>>

\* offload.py:176-211 the device process is launched
DevProcess ==
    /\ phase = "built"
    /\ EnvRunDev(launch.offload, launch.kernel)
    /\ ~launch.dev.launched
    /\ launch' = [launch EXCEPT !.dev =
            [args |-> DevCommandLine(launch.kernel, launch.type, heap[1]),
             env |-> devProcEnv(param_for_env(launch.kernel), heap[1],
                                environment_dev(launch.kernel)),
             launched |-> TRUE]]
    /\ UNCHANGED <<tokens, defaults, heap, paramsDrop, phase, rest>>

\* offload.py:213-259 the host process is launched
HostProcess ==
    /\ phase = "built"
    /\ RunHost(launch.offload)
    /\ EnvRunDev(launch.offload, launch.kernel) => launch.dev.launched
    /\ ~launch.host.launched
    /\ launch' = [launch EXCEPT !.host =
            [args |-> HostCommandLine(launch.kernel, launch.type, heap[1]),
             env |-> confProcEnv(param_for_env(launch.kernel), heap[1], launch.selfboot,
                                 launch.snc,
                                 environment_host(launch.kernel, launch.selfboot)),
             launched |-> TRUE]]
    /\ UNCHANGED <<tokens, defaults, heap, paramsDrop, phase, rest>>

NextEnv == KernelParams \/ DevProcess \/ HostProcess

SpecEnv == InitEnv /\ [][NextEnv]_vars

-----------------------------------------------------------------------------
\* kernel.py:225-243 Kernel.category_params.  The lists of the category table
\* and the lists returned live on cat.heap; a list is named by its position.

Categories == {"scaling", "optimal", "test"}

\* parameter strings: "d" holds the default block size of hplinpack, which
\* "h" holds the host block size in place of
ParamStrings == {"a", "d"}

\* the lists of parameter strings in use
Lists == UNION {[1..n -> ParamStrings] : n \in 0..2}

\* kernel.py:246-252 and hplinpack.py:307-321 _update_params: the list itself,
\* or for hplinpack under scif a new list with the block size replaced
update_params(h, ref, kn, o) ==
    IF kn = "hplinpack" /\ o = "scif"
    THEN [heap |-> Append(h, [i \in 1..Len(h[ref]) |-> IF h[ref][i] = "d" THEN "h" ELSE h[ref][i]]),
          ref |-> Len(h) + 1]
    ELSE [heap |-> h, ref |-> ref]

\* A variant of LastOf that takes the first element
FirstOf(list) == list[1]

\* kernel.py:235 self._categoryParams['scaling'][-1]
LastOf(list) == list[Len(list)]

\* kernel.py:230-240 category_params(category, offload) of kernel kn
category_params(c, kn, category, o) ==
    IF c.table[category] # 0
    THEN LET params == deepcopy(c.heap, c.table[category])
             updated == update_params(params.heap, params.ref, kn, o)
         IN  [c EXCEPT !.heap = updated.heap, !.ret = updated.ref, !.err = "none"]
    ELSE IF category = "optimal" /\ c.table["scaling"] # 0
    THEN IF c.heap[c.table["scaling"]] = <<>>
         THEN [c EXCEPT !.ret = 0, !.err = "IndexError"]
         ELSE LET single == Append(c.heap, <<LastOf(c.heap[c.table["scaling"]])>>)
                  params == deepcopy(single, Len(single))
                  updated == update_params(params.heap, params.ref, kn, o)
              IN  [c EXCEPT !.heap = updated.heap, !.ret = updated.ref, !.err = "none"]
    ELSE [c EXCEPT !.ret = 0, !.err = "NameError"]

\* kernel.py:240 the value category_params returned: a list
Returned(c) == [kind |-> "list", v |-> c.heap[c.ret]]

\* a parameter string of a category list
ParamString(text) == [kind |-> "str", v |-> text]

\* the category tables in use: 'scaling' and 'optimal' present or not
CatTables ==
    {[heap |-> <<sc, op, <<"a">>>>,
      table |-> [x \in Categories |->
                    IF x = "scaling" THEN (IF hasSc THEN 1 ELSE 0)
                    ELSE IF x = "optimal" THEN (IF hasOp THEN 2 ELSE 0)
                    ELSE 0],
      kernel |-> kn] :
        sc \in Lists, op \in {<<"d">>}, hasSc \in BOOLEAN, hasOp \in BOOLEAN,
        kn \in {"hplinpack", "other"}}

InitCat ==
    /\ InitRun
    /\ tokens = <<>>
    /\ defaults = <<>>
    /\ heap = <<>>
    /\ paramsDrop = NoParamsDrop
    /\ phase = "idle"
    /\ launch = NoLaunch
    /\ cmp = NoCmp
    /\ \E t \in CatTables :
        cat = [heap |-> t.heap, table |-> t.table, kernel |-> t.kernel, offload |-> "none",
               asked |-> "", ret |-> 0, err |-> "none", phase |-> "start", calls |-> 0]

\* run.py:166 kernelArgs = kernel.category_params(paramCat, offload.name)
CategoryParams ==
    /\ cat.phase \in {"start", "returned", "changed", "raised"}
    /\ cat.calls < MaxCalls
    /\ \E category \in Categories, o \in {"none", "scif"} :
        LET c == category_params(cat, cat.kernel, category, o) IN
        cat' = [c EXCEPT !.asked = category, !.offload = o, !.calls = cat.calls + 1,
                         !.phase = IF c.err = "none" THEN "returned" ELSE "raised"]
    /\ UNCHANGED <<tokens, defaults, heap, paramsDrop, phase, launch, cmp, run>>

\* the caller changes the list it was given
ChangeReturned ==
    /\ cat.phase = "returned"
    /\ \/ cat' = [cat EXCEPT !.heap[cat.ret] = Append(@, "x"), !.phase = "changed"]
       \/ /\ cat.heap[cat.ret] # <<>>
          /\ cat' = [cat EXCEPT !.heap[cat.ret][1] = "x", !.phase = "changed"]
    /\ UNCHANGED <<tokens, defaults, heap, paramsDrop, phase, launch, cmp, run>>

NextCat == CategoryParams \/ ChangeReturned

SpecCat == InitCat /\ [][NextCat]_vars

-----------------------------------------------------------------------------
\* micp/stats.py.  A Stats object is its perf dictionary and the order in
\* which the dictionary is walked; a float is a fraction <<n, d>> with d > 0.

Tags == {"Computation.Avg", "Computation.Time"}

\* stats.py:87 tag.find('Time') != -1
HasTime(tag) == tag = "Computation.Time"

\* measured values
PerfValues == {90, 98, 100, 110}

\* the orders a dictionary of the two tags is walked in
TagOrders ==
    {<<"Computation.Avg", "Computation.Time">>, <<"Computation.Time", "Computation.Avg">>}

\* stats.py:38-46 Stats objects with values of the given set
StatsObjects(values) ==
    {[perf |-> p, order |-> o] :
        p \in [Tags -> [value : values, rollup : BOOLEAN]], o \in TagOrders}

\* x < y for floats
Less(x, y) == x[1] * y[2] < y[1] * x[2]

\* x == y for floats
Same(x, y) == x[1] * y[2] = y[1] * x[2]

\* A variant of relError in which the sign is the same for every tag
relErrorSameSign(a, ref, tag) ==
    <<a.perf[tag].value - ref.perf[tag].value, ref.perf[tag].value>>

\* stats.py:87-91 relError of one tag
relError(a, ref, tag) ==
    <<(IF HasTime(tag) THEN -1 ELSE 1) * (a.perf[tag].value - ref.perf[tag].value),
      ref.perf[tag].value>>

\* stats.py:84-94 the loop of Stats.__sub__ over the tags that are left
RECURSIVE SubLoop(_, _, _, _)
SubLoop(a, ref, tags, res) ==
    IF tags = <<>> THEN res
    ELSE IF a.perf[Head(tags)].rollup
    THEN LET e == relError(a, ref, Head(tags)) IN
         SubLoop(a, ref, Tail(tags), IF res = None \/ Less(e, res) THEN e ELSE res)
    ELSE SubLoop(a, ref, Tail(tags), res)

\* stats.py:83-94 Stats.__sub__ with rolledUp=True
Sub(a, ref) == SubLoop(a, ref, a.order, None)

InitSub ==
    /\ InitRun
    /\ tokens = <<>>
    /\ defaults = <<>>
    /\ heap = <<>>
    /\ paramsDrop = NoParamsDrop
    /\ phase = "idle"
    /\ launch = NoLaunch
    /\ cat = NoCat
    /\ \E a \in StatsObjects(PerfValues), ref \in StatsObjects({90, 100}) :
        /\ ref.order = a.order
        /\ \A tag \in Tags : ref.perf[tag].rollup
        /\ cmp = [mode |-> "sub", a |-> a, ref |-> ref, result |-> None, phase |-> "start"]

\* stats.py:642 relError = actual - expected
Subtract ==
    /\ cmp.mode = "sub"
    /\ cmp.phase = "start"
    /\ cmp' = [cmp EXCEPT !.result = Sub(cmp.a, cmp.ref), !.phase = "done"]
    /\ UNCHANGED <<tokens, defaults, heap, paramsDrop, phase, launch, cat, run>>

NextSub == Subtract

SpecSub == InitSub /\ [][NextSub]_vars

\* None where a Stats is expected (stats.py:613, 639)
NoStats == [none |-> TRUE]

IsNone(s) == "none" \in DOMAIN s

\* a Stats whose rolled-up rate is v and whose time, not rolled up, is 100
RateStats(v) ==
    [perf |-> [tag \in Tags |-> [value |-> IF HasTime(tag) THEN 100 ELSE v,
                                 rollup |-> ~HasTime(tag)]],
     order |-> <<"Computation.Avg", "Computation.Time">>]

\* the lists get_stat_list returns, of at most MaxCompared elements
StatLists(values) ==
    UNION {[1..n -> {NoStats} \cup {RateStats(v) : v \in values}] : n \in 0..MaxCompared}

\* margins of perf_regression_test
Margins == {<<0, 1>>, <<1, 100>>, <<5, 100>>}

Zero == <<0, 1>>

\* -x for floats
Neg(x) == <<-x[1], x[2]>>

\* stats.py:638 zip
zip(a, b) ==
    [i \in 1..(IF Len(a) < Len(b) THEN Len(a) ELSE Len(b)) |-> <<a[i], b[i]>>]

\* stats.py:637-639 all_valid_results
valid_pairs(selfStatList, refStatList) ==
    SelectSeq(zip(selfStatList, refStatList), LAMBDA p : ~IsNone(p[1]) /\ ~IsNone(p[2]))

\* A variant of RelLoop in which an improvement replaces a recorded regression
RECURSIVE RelLoopImprovementWins(_, _, _)
RelLoopImprovementWins(pairs, margin, maxRegr) ==
    IF pairs = <<>> THEN maxRegr
    ELSE LET e == Sub(Head(pairs)[1], Head(pairs)[2]) IN
         IF Less(e, Neg(margin))
         THEN RelLoopImprovementWins(Tail(pairs), margin, IF Less(e, maxRegr) THEN e ELSE maxRegr)
         ELSE IF Less(margin, e) /\ Less(maxRegr, e)
         THEN RelLoopImprovementWins(Tail(pairs), margin, e)
         ELSE RelLoopImprovementWins(Tail(pairs), margin, maxRegr)

\* stats.py:640-648 the loop of _relative_error_test over the pairs that are left
RECURSIVE RelLoop(_, _, _)
RelLoop(pairs, margin, maxRegr) ==
    IF pairs = <<>> THEN maxRegr
    ELSE LET e == Sub(Head(pairs)[1], Head(pairs)[2]) IN
         IF Less(e, Neg(margin))
         THEN RelLoop(Tail(pairs), margin, IF Less(e, maxRegr) THEN e ELSE maxRegr)
         ELSE IF Less(margin, e) /\ Less(maxRegr, e) /\ ~Less(maxRegr, Zero)
         THEN RelLoop(Tail(pairs), margin, e)
         ELSE RelLoop(Tail(pairs), margin, maxRegr)

\* stats.py:662-675 _print_perf_test_verdict
print_perf_test_verdict(test_failed, max_regression) ==
    IF test_failed
    THEN [verdict |-> "PerfRegressionError", worst |-> Neg(max_regression), best |-> Zero]
    ELSE [verdict |-> "PASSED", worst |-> Zero, best |-> max_regression]

\* stats.py:632-650 _relative_error_test for one shared (kernel, offload)
relative_error_test(selfStatList, refStatList, margin) ==
    LET maxRegr == RelLoop(valid_pairs(selfStatList, refStatList), margin, Zero) IN
    print_perf_test_verdict(Less(maxRegr, Neg(margin)), maxRegr)

InitRel ==
    /\ InitRun
    /\ tokens = <<>>
    /\ defaults = <<>>
    /\ heap = <<>>
    /\ paramsDrop = NoParamsDrop
    /\ phase = "idle"
    /\ launch = NoLaunch
    /\ cat = NoCat
    /\ \E a \in StatLists(PerfValues), ref \in StatLists({100}), margin \in Margins :
        cmp = [mode |-> "relative", actual |-> a, ref |-> ref, margin |-> margin,
               phase |-> "start", out |-> <<>>]

\* stats.py:679-700 perf_regression_test with an empty statistical_model
RelativeErrorTest ==
    /\ cmp.mode = "relative"
    /\ cmp.phase = "start"
    /\ cmp' = [cmp EXCEPT !.phase = "done",
                          !.out = relative_error_test(cmp.actual, cmp.ref, cmp.margin)]
    /\ UNCHANGED <<tokens, defaults, heap, paramsDrop, phase, launch, cat, run>>

NextRel == RelativeErrorTest

SpecRel == InitRel /\ [][NextRel]_vars

\* n / d for floats; a division by zero is left to the caller
Frac(n, d) == IF d < 0 THEN <<-n, -d>> ELSE <<n, d>>

\* statistical models: (mean, stdev) of the description of every Stats
Models == {<<100, 2>>, <<6, 2>>, <<3, 2>>}

\* Stats of a run checked against a statistical model
ModelledStats ==
    {s \in StatsObjects({0, 90, 100, 110}) :
        /\ \A tag \in Tags : s.perf[tag].rollup
        /\ s.perf["Computation.Time"].value \in {90, 100}}

\* stats.py:97-126 Stats.statistical_comparison: every branch of the loop's
\* body returns, so the loop ends at the first tag of the dictionary
statistical_comparison(s, model) ==
    LET tag == Head(s.order)
        max_expected == model[1] + 3 * model[2]
        min_expected == model[1] - 3 * model[2]
        actual_performance == s.perf[tag].value
        perf_greater_than_min == actual_performance > min_expected
        perf_less_than_max == actual_performance < max_expected
    IN  IF perf_greater_than_min /\ perf_less_than_max THEN [kind |-> "None"]
        ELSE IF ~perf_greater_than_min
        THEN IF min_expected = 0 THEN [kind |-> "ZeroDivisionError"]
             ELSE [kind |-> "float", v |-> Frac(actual_performance - min_expected, min_expected)]
        ELSE IF max_expected = 0 THEN [kind |-> "ZeroDivisionError"]
             ELSE [kind |-> "float", v |-> Frac(actual_performance - max_expected, max_expected)]

\* stats.py:614-626 the loop of _statistical_test over the results that are left
RECURSIVE StatLoop(_, _, _)
StatLoop(results, model, acc) ==
    IF results = <<>> THEN acc
    ELSE LET r == statistical_comparison(Head(results), model) IN
         IF r.kind = "ZeroDivisionError" THEN [acc EXCEPT !.exc = "ZeroDivisionError"]
         ELSE IF r.kind = "None" THEN StatLoop(Tail(results), model, acc)
         ELSE IF Less(r.v, Zero)
         THEN StatLoop(Tail(results), model,
                       IF Less(r.v, acc.max_regression)
                       THEN [acc EXCEPT !.max_regression = r.v] ELSE acc)
         ELSE StatLoop(Tail(results), model,
                       IF Less(acc.best_performance, r.v)
                       THEN [acc EXCEPT !.best_performance = r.v] ELSE acc)

\* stats.py:607-630 _statistical_test for one shared (kernel, offload)
statistical_test(actual_res, model) ==
    LET all_valid_results == SelectSeq(actual_res, LAMBDA res : ~IsNone(res))
        acc == StatLoop(all_valid_results, model,
                        [max_regression |-> Zero, best_performance |-> Zero, exc |-> "none"])
        test_failed == ~Same(acc.max_regression, Zero)
    IN  IF acc.exc # "none"
        THEN [verdict |-> acc.exc, worst |-> Zero, best |-> Zero]
        ELSE print_perf_test_verdict(
                test_failed, IF test_failed THEN acc.max_regression ELSE acc.best_performance)

InitStat ==
    /\ InitRun
    /\ tokens = <<>>
    /\ defaults = <<>>
    /\ heap = <<>>
    /\ paramsDrop = NoParamsDrop
    /\ phase = "idle"
    /\ launch = NoLaunch
    /\ cat = NoCat
    /\ \E n \in 0..MaxStats, model \in Models :
        \E a \in [1..n -> {NoStats} \cup ModelledStats] :
            cmp = [mode |-> "statistical", actual |-> a, model |-> model,
                   phase |-> "start", out |-> <<>>]

\* stats.py:679-700 perf_regression_test with a statistical_model
StatisticalTest ==
    /\ cmp.mode = "statistical"
    /\ cmp.phase = "start"
    /\ cmp' = [cmp EXCEPT !.phase = "done", !.out = statistical_test(cmp.actual, cmp.model)]
    /\ UNCHANGED <<tokens, defaults, heap, paramsDrop, phase, launch, cat, run>>

NextStat == StatisticalTest

SpecStat == InitStat /\ [][NextStat]_vars

\* parameter categories of a run (runArgs['paramCat'])
ParamCats == {"optimal", "optimal_quick", "scaling"}

\* stats.py:599 paramCat.startswith('optimal')
StartsWithOptimal(paramCat) == paramCat \in {"optimal", "optimal_quick"}

\* the lists get_stat_list returns for a run: Stats only
RunLists(values) ==
    UNION {[1..n -> {RateStats(v) : v \in values}] : n \in 0..MaxCompared}

\* stats.py:345-348 the loop of get_optimal_stat over the Stats that are left
RECURSIVE OptimalLoop(_, _)
OptimalLoop(statList, optimalStat) ==
    IF statList = <<>> THEN optimalStat
    ELSE LET dd == Sub(Head(statList), optimalStat) IN
         OptimalLoop(Tail(statList),
                     IF dd # None /\ Less(Zero, dd) THEN Head(statList) ELSE optimalStat)

\* stats.py:340-349 get_optimal_stat
get_optimal_stat(statList) ==
    IF Len(statList) = 0 THEN NoStats ELSE OptimalLoop(statList, statList[1])

\* stats.py:596-604 _get_kernel_perf_results
get_kernel_perf_results(actual, ref, paramCat) ==
    IF StartsWithOptimal(paramCat)
    THEN << <<get_optimal_stat(actual)>>, <<get_optimal_stat(ref)>> >>
    ELSE <<actual, ref>>

\* stats.py:612-613, 636-639 the Stats of the run that the test compares, each
\* with the reference Stats it is compared with (none in statistical mode)
all_valid_results(mode, actual, ref, paramCat) ==
    LET r == get_kernel_perf_results(actual, ref, paramCat) IN
    IF mode = "statistical"
    THEN LET valid == SelectSeq(r[1], LAMBDA res : ~IsNone(res)) IN
         [i \in DOMAIN valid |-> <<valid[i], NoStats>>]
    ELSE valid_pairs(r[1], r[2])

InitPick ==
    /\ InitRun
    /\ tokens = <<>>
    /\ defaults = <<>>
    /\ heap = <<>>
    /\ paramsDrop = NoParamsDrop
    /\ phase = "idle"
    /\ launch = NoLaunch
    /\ cat = NoCat
    /\ \E a \in RunLists(PerfValues), ref \in RunLists({90, 100}),
          paramCat \in ParamCats, mode \in {"relative", "statistical"} :
        cmp = [mode |-> "pick", test |-> mode, actual |-> a, ref |-> ref,
               paramCat |-> paramCat, phase |-> "start", out |-> <<>>]

\* stats.py:679-700 perf_regression_test up to the choice of what is compared
PickCompared ==
    /\ cmp.mode = "pick"
    /\ cmp.phase = "start"
    /\ cmp' = [cmp EXCEPT !.phase = "done",
                          !.out = all_valid_results(cmp.test, cmp.actual, cmp.ref, cmp.paramCat)]
    /\ UNCHANGED <<tokens, defaults, heap, paramsDrop, phase, launch, cat, run>>

NextPick == PickCompared

SpecPick == InitPick /\ [][NextPick]_vars

-----------------------------------------------------------------------------
\* offload.py:314-326 the parsing of one raw block, for kernels that scale
\* internally and for the others

\* descriptions parse_desc finds in a block
Descs == {"d1", "d2"}

\* what parse_desc and parse_perf find in a block: at most MaxBlock elements
Blocks(values) == UNION {[1..n -> values] : n \in 0..MaxBlock}

\* stats.py:38-46 Stats(hostParam, desc, perf)
ParsedStats(desc, perf) == [params |-> "hostParam", desc |-> desc, perf |-> perf]

\* offload.py:315-317 thisResult of a kernel that scales internally
thisResult(descs, perfs) ==
    LET pairs == zip(descs, perfs) IN
    [i \in DOMAIN pairs |-> ParsedStats(pairs[i][1], pairs[i][2])]

InitParse ==
    /\ InitRun
    /\ tokens = <<>>
    /\ defaults = <<>>
    /\ heap = <<>>
    /\ paramsDrop = NoParamsDrop
    /\ phase = "idle"
    /\ launch = NoLaunch
    /\ cat = NoCat
    /\ \E internal \in BOOLEAN, descs \in Blocks(Descs), perfs \in Blocks({90, 100}),
          before \in {<<>>, <<ParsedStats("d1", 100)>>} :
        /\ ~internal => Len(descs) = 1 /\ Len(perfs) = 1
        /\ cmp = [mode |-> "parse", internal_scaling |-> internal, descs |-> descs,
                  perfs |-> perfs, before |-> before, result |-> before,
                  exc |-> "none", phase |-> "start"]

\* offload.py:314-326 the Stats of the block are added to result
ParseBlock ==
    /\ cmp.mode = "parse"
    /\ cmp.phase = "start"
    /\ cmp' = [cmp EXCEPT
                !.phase = "done",
                !.result = IF cmp.internal_scaling
                           THEN cmp.result \o thisResult(cmp.descs, cmp.perfs)
                           ELSE Append(cmp.result, ParsedStats(cmp.descs[1], cmp.perfs[1]))]
    /\ UNCHANGED <<tokens, defaults, heap, paramsDrop, phase, launch, cat, run>>

NextParse == ParseBlock

SpecParse == InitParse /\ [][NextParse]_vars

-----------------------------------------------------------------------------
\* micp/stats.py StatsCollection.  A store maps kernel names to dictionaries
\* from offload keys to lists of Stats.  The offload key off + '__' + tag
\* followed by ext times ' ext' is the record [off, tag, ext]; the tag "None"
\* stands for a name without '__'.

Key(off, tag, ext) == [off |-> off, tag |-> tag, ext |-> ext]

\* stats.py:916-924 split_offload: the base name, and the tag with its ' ext's
split_offload(key) == <<key.off, <<key.tag, key.ext>>>>

\* stats.py:235-241 deprecationDict
Deprecated(kk) == IF kk = "sgemm_mkl" THEN "sgemm" ELSE kk

\* stats.py:247-248 oo[6:] of a key that starts with 'linux_native'
Unprefixed(key) == IF key.off = "linux_native" THEN [key EXCEPT !.off = "native"] ELSE key

\* a Stats of the collection with the given owner, kept under the given key
\* of the given kernel when it was made
StoredStats(owner, kk, key) ==
    [owner |-> owner, kernel |-> kk, key |-> key, perf |-> "Computation.Avg"]

\* stats.py:251-273 the gemm tags get their full names
FullTag(kk, key, stat) ==
    IF kk \in {"sgemm", "dgemm"} /\ stat.perf = "Computation.Avg"
    THEN IF key.off = "pragma" THEN [stat EXCEPT !.perf = "Host.Computation.Avg"]
         ELSE IF key.off = "native" THEN [stat EXCEPT !.perf = "Task.Computation.Avg"]
         ELSE stat
    ELSE stat

\* stats.py:235-273 what extend makes of other before it merges it
Renamed(other) ==
    [kk \in {Deprecated(k0) : k0 \in DOMAIN other} |->
        LET old == other[CHOOSE k0 \in DOMAIN other : Deprecated(k0) = kk] IN
        [key \in {Unprefixed(o0) : o0 \in DOMAIN old} |->
            LET list == old[CHOOSE o0 \in DOMAIN old : Unprefixed(o0) = key] IN
            [i \in DOMAIN list |-> FullTag(kk, key, list[i])]]]

\* A variant of FreeKey that appends ' ext' once to a key self holds
FreeKeyOnce(mine, off) ==
    IF off \in DOMAIN mine THEN [off EXCEPT !.ext = @ + 1] ELSE off

\* stats.py:282-283 the first key, from offload on, that self does not hold
RECURSIVE FreeKey(_, _)
FreeKey(mine, off) ==
    IF off \in DOMAIN mine
    THEN FreeKey(mine, [off EXCEPT !.ext = @ + 1])
    ELSE off

\* A variant of ExtendLoop that stores the list of other under its own key
RECURSIVE ExtendLoopSameKey(_, _, _, _)
ExtendLoopSameKey(mine, theirs, myOffloadNames, order) ==
    IF order = <<>> THEN mine
    ELSE LET otherOffload == Head(order) IN
         IF split_offload(otherOffload)[1] \in myOffloadNames
         THEN ExtendLoopSameKey(
                [key \in DOMAIN mine \cup {otherOffload} |->
                    IF key = otherOffload THEN theirs[otherOffload] ELSE mine[key]],
                theirs, myOffloadNames, Tail(order))
         ELSE ExtendLoopSameKey(mine, theirs, myOffloadNames, Tail(order))

\* stats.py:279-284 the loop over the offload keys of other that are left
RECURSIVE ExtendLoop(_, _, _, _)
ExtendLoop(mine, theirs, myOffloadNames, order) ==
    IF order = <<>> THEN mine
    ELSE LET otherOffload == Head(order) IN
         IF split_offload(otherOffload)[1] \in myOffloadNames
         THEN ExtendLoop(mine @@ (FreeKey(mine, otherOffload) :> theirs[otherOffload]),
                         theirs, myOffloadNames, Tail(order))
         ELSE ExtendLoop(mine, theirs, myOffloadNames, Tail(order))

\* the order in which a dictionary with the given keys is walked, from an
\* order of all keys
WalkOrder(keys, all) == SelectSeq(all, LAMBDA key : key \in keys)

\* stats.py:275-284 the merge of extend
Merged(self, other, all) ==
    [kk \in DOMAIN self |->
        IF kk \in DOMAIN other
        THEN ExtendLoop(self[kk], other[kk],
                        {split_offload(off)[1] : off \in DOMAIN self[kk]},
                        WalkOrder(DOMAIN other[kk], all))
        ELSE self[kk]]

\* the tags of the runs, in sorted order
TagNames == <<"a", "b">>

\* stats.py:355-359 the sorted extensions of the keys of a kernel
RECURSIVE Extensions(_, _, _)
Extensions(keys, t, e) ==
    IF t > Len(TagNames) THEN <<>>
    ELSE IF e > 2 * MaxExtends THEN Extensions(keys, t + 1, 0)
    ELSE (IF \E key \in keys : key.tag = TagNames[t] /\ key.ext = e
          THEN << <<TagNames[t], e>> >> ELSE <<>>) \o Extensions(keys, t, e + 1)

\* stats.py:360-366 the lists of the extensions, joined
RECURSIVE Joined(_, _, _)
Joined(dict, off, extensions) ==
    IF extensions = <<>> THEN <<>>
    ELSE LET key == Key(off, Head(extensions)[1], Head(extensions)[2]) IN
         (IF key \in DOMAIN dict THEN dict[key] ELSE <<>>) \o Joined(dict, off, Tail(extensions))

\* stats.py:351-366 get_stat_list; a missing key is a KeyError
get_stat_list(st, kernelName, offloadName) ==
    IF offloadName.tag # "None"
    THEN IF kernelName \in DOMAIN st /\ offloadName \in DOMAIN st[kernelName]
         THEN st[kernelName][offloadName] ELSE <<"KeyError">>
    ELSE IF kernelName \in DOMAIN st
         THEN Joined(st[kernelName], offloadName.off,
                     Extensions(DOMAIN st[kernelName], 1, 0))
         ELSE <<"KeyError">>

\* the dictionary of a kernel with the given keys
Dict(owner, kk, keys) == [key \in keys |-> <<StoredStats(owner, kk, key)>>]

\* the stores of the running collection: current names only
SelfStores ==
    {[kk \in ks |-> Dict(0, kk, f[kk])] :
        ks \in SUBSET {"sgemm", "stream"},
        f \in [{"sgemm", "stream"} ->
                {{Key("native", "a", 0)}, {Key("pragma", "a", 0)},
                 {Key("native", "a", 0), Key("pragma", "a", 0)}}]}

\* the offload keys of a collection that is merged in
OtherKeys ==
    {Key("native", "a", 0), Key("native", "a", 1), Key("linux_native", "a", 0),
     Key("native", "b", 0)}

\* the stores that are merged in: one or two keys for a gemm kernel under its
\* current or its deprecated name, and possibly stream
OtherStores(owner) ==
    {[kk \in ks |-> Dict(owner, kk, IF kk = "stream" THEN {Key("native", "a", 0)} ELSE keys)] :
        ks \in {{}, {"sgemm"}, {"sgemm_mkl"}, {"stream"}, {"sgemm", "stream"},
                {"sgemm_mkl", "stream"}},
        keys \in {K \in SUBSET OtherKeys :
                    /\ Cardinality(K) \in {1, 2}
                    /\ ~({Key("native", "a", 0), Key("linux_native", "a", 0)} \subseteq K)}}

\* the orders of all keys of a collection that is merged in
KeyOrders ==
    LET keys == {Unprefixed(key) : key \in OtherKeys} IN
    {q \in [1..Cardinality(keys) -> keys] : \A i, j \in DOMAIN q : q[i] = q[j] => i = j}

InitExtend ==
    /\ InitRun
    /\ tokens = <<>>
    /\ defaults = <<>>
    /\ heap = <<>>
    /\ paramsDrop = NoParamsDrop
    /\ phase = "idle"
    /\ launch = NoLaunch
    /\ cat = NoCat
    /\ \E self \in SelfStores :
        cmp = [mode |-> "extend", self |-> self, before |-> self, given |-> <<>>,
               other |-> <<>>, calls |-> 0]

\* stats.py:233-284 StatsCollection.extend
Extend ==
    /\ cmp.mode = "extend"
    /\ cmp.calls < MaxExtends
    /\ \E other \in OtherStores(cmp.calls + 1), all \in KeyOrders :
        cmp' = [cmp EXCEPT !.before = cmp.self,
                           !.given = other,
                           !.other = Renamed(other),
                           !.self = Merged(cmp.self, Renamed(other), all),
                           !.calls = @ + 1]
    /\ UNCHANGED <<tokens, defaults, heap, paramsDrop, phase, launch, cat, run>>

NextExtend == Extend

SpecExtend == InitExtend /\ [][NextExtend]_vars

-----------------------------------------------------------------------------
\* stats.py:218-231 StatsCollection.append with the independent-variable names

\* stats.py:228-231 the name of the independent variable of the kernel is
\* recorded, or compared with the recorded one
record_xName(names, kernelName, xName) ==
    IF kernelName \notin DOMAIN names
    THEN [names |-> names @@ (kernelName :> xName), err |-> "none"]
    ELSE IF names[kernelName] # xName
    THEN [names |-> names, err |-> "NameError"]
    ELSE [names |-> names, err |-> "none"]

InitAppend ==
    /\ InitRun
    /\ tokens = <<>>
    /\ defaults = <<>>
    /\ heap = <<>>
    /\ paramsDrop = NoParamsDrop
    /\ phase = "idle"
    /\ launch = NoLaunch
    /\ cat = NoCat
    /\ cmp = [mode |-> "append", store |-> <<>>, xName |-> <<>>, log |-> <<>>,
              err |-> "none", failed |-> FALSE, calls |-> 0,
              before |-> [store |-> <<>>, xName |-> <<>>],
              call |-> [kernel |-> "", offload |-> "", xName |-> "", stats |-> <<>>]]

\* stats.py:218-231 StatsCollection.append
AppendStats ==
    /\ cmp.mode = "append"
    /\ cmp.calls < MaxAppends
    /\ \E kernelName \in {"sgemm", "stream"}, offloadName \in {"native", "local"},
          xName \in {"matrix_size", "num_core"},
          stats \in {<<>>, <<cmp.calls + 1>>, <<cmp.calls + 1, -(cmp.calls + 1)>>} :
        LET key == <<offloadName, "__", "tag">>
            r == record_xName(cmp.xName, kernelName, xName)
            this == [kernel |-> kernelName, offload |-> key, xName |-> xName, stats |-> stats]
        IN  cmp' = [cmp EXCEPT
                        !.store = append(cmp.store, kernelName, key, stats),
                        !.xName = r.names,
                        !.err = r.err,
                        !.failed = @ \/ r.err # "none",
                        !.log = IF r.err = "none" THEN Append(@, this) ELSE @,
                        !.before = [store |-> cmp.store, xName |-> cmp.xName],
                        !.call = this,
                        !.calls = @ + 1]
    /\ UNCHANGED <<tokens, defaults, heap, paramsDrop, phase, launch, cat, run>>

NextAppend == AppendStats

SpecAppend == InitAppend /\ [][NextAppend]_vars

-----------------------------------------------------------------------------
\* stats.py:703-765 StatsCollectionStore: the stored collections, each with
\* whether its hardware is the running one, its tool version and its tag

\* the version of the running tool (info.micperf_version)
thisVersion == 2

\* versions of the stored collections
Versions == 1..3

\* tags of the stored collections
StoredTags == {"optimal_x", "scaling_x"}

\* stats.py:759 testName in sc.tag
Contains(testName, tag) ==
    \/ testName = ""
    \/ testName = "optimal" /\ tag = "optimal_x"
    \/ testName = "scaling" /\ tag = "scaling_x"

\* the greatest of a non-empty set of versions
Max(S) == CHOOSE x \in S : \A y \in S : y <= x

\* stats.py:747-765 get_for_regression_test: the indices of the collections
\* left by each filter, and the one returned
get_for_regression_test(stored, testName) ==
    LET same_sku == {i \in DOMAIN stored : stored[i].same_sku}
        lower == {i \in same_sku : stored[i].version <= thisVersion}
        thatVersion == Max({stored[i].version : i \in lower})
        matching == {i \in lower :
                        stored[i].version = thatVersion /\ Contains(testName, stored[i].tag)}
    IN  IF same_sku = {} THEN [err |-> "RuntimeError", ret |-> 0]
        ELSE IF lower = {} THEN [err |-> "RuntimeError", ret |-> 0]
        ELSE IF matching = {} THEN [err |-> "RuntimeError", ret |-> 0]
        ELSE IF Cardinality(matching) > 1 THEN [err |-> "RuntimeError", ret |-> 0]
        ELSE [err |-> "none", ret |-> CHOOSE i \in matching : TRUE]

InitStore ==
    /\ InitRun
    /\ tokens = <<>>
    /\ defaults = <<>>
    /\ heap = <<>>
    /\ paramsDrop = NoParamsDrop
    /\ phase = "idle"
    /\ launch = NoLaunch
    /\ cat = NoCat
    /\ \E n \in 0..MaxStored, testName \in {"", "optimal", "scaling"} :
        \E stored \in [1..n -> [same_sku : BOOLEAN, version : Versions, tag : StoredTags]] :
            cmp = [mode |-> "store", stored |-> stored, testName |-> testName,
                   phase |-> "start", out |-> [err |-> "none", ret |-> 0]]

\* stats.py:681-683 the reference collection of a regression test is looked up
GetForRegressionTest ==
    /\ cmp.mode = "store"
    /\ cmp.phase = "start"
    /\ cmp' = [cmp EXCEPT !.phase = "done",
                          !.out = get_for_regression_test(cmp.stored, cmp.testName)]
    /\ UNCHANGED <<tokens, defaults, heap, paramsDrop, phase, launch, cat, run>>

NextStore == GetForRegressionTest

SpecStore == InitStore /\ [][NextStore]_vars

-----------------------------------------------------------------------------
\* offload.py:333-349 the peak of a sweep.  A Stats is its position in the
\* list and what the kernel's _ordering_key makes of it: a number, or an
\* exception when the Stats lacks the metric the key reads.

\* what _ordering_key finds in a Stats
KeyValues ==
    {[kind |-> "float", v |-> 1], [kind |-> "float", v |-> 2], [kind |-> "KeyError", v |-> 0]}

\* kernel.py:488-496 _ordering_key: None unless the kernel defines it
ordering_key(defined, stat) == IF defined THEN stat.key ELSE [kind |-> "None", v |-> 0]

\* offload.py:336-338 _reverse_ordering: True unless the kernel sets it
reverse_ordering(attr) == IF attr = "absent" THEN TRUE ELSE attr = "True"

\* x is placed before y by a sort in the given direction
Before(x, y, reverse) == IF reverse THEN x.key.v > y.key.v ELSE x.key.v < y.key.v

\* the insertion of x into a sorted list, after the elements it is not before
RECURSIVE Insert(_, _, _)
Insert(x, list, reverse) ==
    IF list = <<>> THEN <<x>>
    ELSE IF Before(x, Head(list), reverse) THEN <<x>> \o list
    ELSE <<Head(list)>> \o Insert(x, Tail(list), reverse)

\* offload.py:339-340 sorted(result, key, reverse): equal keys keep their order
RECURSIVE sorted(_, _)
sorted(list, reverse) ==
    IF list = <<>> THEN <<>>
    ELSE Insert(list[Len(list)], sorted(SubSeq(list, 1, Len(list) - 1), reverse), reverse)

\* offload.py:333-349 the end of Offload.run: the exception that leaves it,
\* the peak that is printed and the list that is returned
peak_and_return(res, defined, attr) ==
    IF Len(res) > 1 /\ ordering_key(defined, res[1]).kind = "KeyError"
    THEN [exc |-> "KeyError", peak |-> 0, returned |-> FALSE, retval |-> <<>>]
    ELSE IF Len(res) > 1 /\ ordering_key(defined, res[1]).kind # "None"
    THEN IF \E i \in DOMAIN res : ordering_key(defined, res[i]).kind = "KeyError"
         THEN [exc |-> "none", peak |-> 0, returned |-> TRUE, retval |-> res]
         ELSE [exc |-> "none", peak |-> sorted(res, reverse_ordering(attr))[1].id,
               returned |-> TRUE, retval |-> res]
    ELSE [exc |-> "none", peak |-> 0, returned |-> TRUE, retval |-> res]

InitPeak ==
    /\ InitRun
    /\ tokens = <<>>
    /\ defaults = <<>>
    /\ heap = <<>>
    /\ paramsDrop = NoParamsDrop
    /\ phase = "idle"
    /\ launch = NoLaunch
    /\ cat = NoCat
    /\ \E n \in 0..MaxResults, defined \in BOOLEAN, attr \in {"absent", "True", "False"} :
        \E keys \in [1..n -> KeyValues] :
            cmp = [mode |-> "peak", result |-> [i \in 1..n |-> [id |-> i, key |-> keys[i]]],
                   defined |-> defined, attr |-> attr, phase |-> "start",
                   out |-> [exc |-> "none", peak |-> 0, returned |-> FALSE, retval |-> <<>>]]

\* offload.py:333-349 the peak is looked for and the list returned
PeakAndReturn ==
    /\ cmp.mode = "peak"
    /\ cmp.phase = "start"
    /\ cmp' = [cmp EXCEPT !.phase = "done",
                          !.out = peak_and_return(cmp.result, cmp.defined, cmp.attr)]
    /\ UNCHANGED <<tokens, defaults, heap, paramsDrop, phase, launch, cat, run>>

NextPeak == PeakAndReturn

SpecPeak == InitPeak /\ [][NextPeak]_vars

-----------------------------------------------------------------------------
\* Properties of Offload.run and of the orchestrator.  Offload.run has returned
\* when pc = "returned" and has raised when pc = "raised"; hist then still
\* holds the history of that invocation.

\* C1: when Offload.run returns or raises, no host or device process that the
\* invocation launched is still running.
C1_NoLaunchedProcessLeft ==
    pc \in {"returned", "raised"} => hist.launched \cap running = {}

\* C2: once the executable and the auxiliary files are on the device, every
\* exit of Offload.run (return or raise) has got to the removal of all staged
\* device files and of the device-side parameter file.
C2_StagedFilesRemovalIssued ==
    (pc \in {"returned", "raised"} /\ hist.stageDone)
        => (filesToRemove \cup devParamFile.names) \subseteq hist.rmIssued

\* C3: every local scratch directory and parameter file that param_file created
\* during Offload.run is gone when run returns or raises.
C3_ScratchRemoved ==
    pc \in {"returned", "raised"} => hist.created \cap (dirs \cup files) = {}

\* C4: a failure inside the cleanup of Offload.run is never raised: after a body
\* that failed with E the exception leaving run is E with its partialResult, and
\* after a body that succeeded run returns.
C4_CleanupFailureNotRaised ==
    (pc \in {"returned", "raised"} /\ hist.cleanupFailed)
        => IF hist.bodyExc = NoExc
           THEN pc = "returned"
           ELSE /\ pc = "raised"
                /\ exc = [hist.bodyExc EXCEPT !.hasPartial = TRUE, !.partial = result]

\* C5: a kernel that requires MPI, run while MPI is unavailable, raises
\* MissingDependenciesError(DEP_MPI) before any process is launched, any file is
\* staged, any parameter set is modified and any environment variable is changed.
C5_MpiCheckedBeforeEffects ==
    hist.mpiMissing
        => /\ pc = "raised"
           /\ exc = [NoExc EXCEPT !.type = "MissingDependenciesError", !.dep = "mpi"]
           /\ hist.launched = {}
           /\ ~hist.staged
           /\ ~hist.paramsModified
           /\ ~hist.envChanged

C7_PartialResultCarried ==
    (pc = "raised" /\ hist.failedAt > 0)
        => /\ exc.hasPartial
           /\ exc.partial = result
           /\ Len(result) = hist.failedAt - 1

C9_BothLaunchedThenBothAwaited ==
    /\ Cardinality(running) <= 2
    /\ (runDev /\ RunHost(offload))
        => /\ pc \in {"awaitdev", "awaithost"}
                => {<<"dev", pairIdx, k>>, <<"host", pairIdx, k>>} \subseteq hist.launched
           /\ pc = "awaitdev"
                => /\ ~devProc.reaped /\ ~hostProc.reaped
                   /\ {devProc.pid, hostProc.pid} \subseteq running
           /\ (pc = "parse" \/ (pc = "loop" /\ k > 1))
                => /\ devProc.reaped /\ hostProc.reaped
                   /\ hist.launched \cap running = {}

\* C9 happens: the second parameter set of a host-and-device offload is about to
\* be parsed, both of its processes having completed.
C9_SecondSetOfBothSides ==
    /\ runDev /\ RunHost(offload)
    /\ pc = "parse"
    /\ k = 2
    /\ devProc.pid = <<"dev", pairIdx, 2>> /\ devProc.reaped
    /\ hostProc.pid = <<"host", pairIdx, 2>> /\ hostProc.reaped

\* C10: Offload.run executes the parameter sets one after another in the order of
\* the list it was given, and a successful run returns exactly one Stats per
\* parameter set, in that order, each holding the host parameter set it ran with.
C10_OrderedOneStatsPerSet ==
    /\ Len(hist.order) <= Len(kernelParams)
    /\ \A i \in 1..Len(hist.order) : hist.order[i] = kernelParams[i].id
    /\ (pc = "returned" /\ hist.order # <<>>)
        => /\ Len(retval) = Len(kernelParams)
           /\ Len(hist.order) = Len(kernelParams)
           /\ \A i \in 1..Len(retval) :
                /\ retval[i].params = paramList[i]
                /\ retval[i].params.id = kernelParams[i].id

\* C10 happens: a sweep of several parameter sets returned from an offload whose
\* device parameter sets differ from the host ones.
C10_SweepReturned ==
    /\ pc = "returned"
    /\ offload = "myo"
    /\ Len(retval) = MaxParams
    /\ Len(retval) > 1

\* C11: a run is independent of earlier runs: the environment of its host
\* process holds no OFFLOAD_DEVICES that an earlier run set, and a SCIF run
\* decides what runs on the device from its own kernel.
C11_RunIndependentOfEarlierRuns ==
    /\ hist.hostEnv = "pragma" => offload = "pragma"
    /\ (offload = "scif" /\ pc \notin {"orch", "override", "finished", "aborted"})
        => runDev = (kernel # "hplinpack")


-----------------------------------------------------------------------------
\* Properties of micp/params.py

\* p was built from long-form tokens, each name given at most once, and has
\* no quiet names
LongFormBuilt ==
    /\ heap[1].err = "none"
    /\ heap[1].quiet = {}
    /\ \E i \in 1..Len(tokens) : startswith(tokens[i], <<"-", "-">>)
    /\ \A i \in 1..Len(tokens) : ~is_short_option(tokens[i])
    /\ \A i, j \in 1..Len(tokens) :
        (i # j /\ startswith(tokens[i], <<"-", "-">>)) => tokens[i] # tokens[j]

\* C12: for p built from long-form tokens, Params(p.value_str(), S, D) is
\* constructed without an error and holds, for every name of the schema, the
\* value p holds; values beginning with '-' and empty values included.
C12_ValueStrRoundTrip ==
    (phase = "reparsed" /\ LongFormBuilt)
        => /\ heap[2].err = "none"
           /\ \A i \in 1..NumNames : get_named(heap[2], i) = get_named(heap[1], i)

\* o without the values of the names at schema index paramMax and beyond
Below(o, paramMax) ==
    [o EXCEPT !.vals = [i \in 1..NumNames |-> IF i > paramMax THEN None ELSE o.vals[i]]]

\* every serialization view of o is what it is without the names at schema
\* index paramMax and beyond
HidesFrom(o, paramMax) ==
    /\ pos_list(o) = pos_list(Below(o, paramMax))
    /\ join(split(pos_str(o))) = join(split(pos_str(Below(o, paramMax))))
    /\ value_list(o) = value_list(Below(o, paramMax))
    /\ value_str(o) = value_str(Below(o, paramMax))
    /\ flag_list(o) = flag_list(Below(o, paramMax))
    /\ flag_str(o) = flag_str(Below(o, paramMax))
    /\ str(o) = str(Below(o, paramMax))

\* C13: when ParamsDrop(p, d, m) with d >= 1 has been constructed, none of
\* its serialization views (pos_list, pos_str, value_list, value_str,
\* flag_list, flag_str, __str__) shows a name or value of schema index m or
\* beyond, and its get_named returns p's value for each of those names.
C13_DropHidesFromMax ==
    [][(phase = "built" /\ phase' = "dropped")
        => /\ HidesFrom(heap'[paramsDrop'.ref], paramsDrop'.paramMax)
           /\ \A i \in 1..NumNames :
                i > paramsDrop'.paramMax
                    => get_named(heap'[paramsDrop'.ref], i) = get_named(heap[1], i)]_vars

\* C14: constructing ParamsDrop(p, d, m) and any operation on it afterwards
\* leave p as it was (its values, hence every get_named and view, and its
\* quiet names); the construction raises ValueError exactly when d < 1.
C14_WrappedSetUnchanged ==
    [][/\ phase \in {"built", "dropped"} => heap'[1] = heap[1]
       /\ (phase = "built" /\ phase' \in {"dropped", "ValueError"})
            => (paramsDrop'.numDrop < 1 <=> phase' = "ValueError")]_vars

\* C14 happens: a ParamsDrop hides names of its copy and set_named has
\* changed a value through it.
C14_DropModified ==
    /\ phase = "dropped"
    /\ heap[paramsDrop.ref].quiet # heap[1].quiet
    /\ heap[paramsDrop.ref].vals # heap[1].vals

\* a token that begins with '--' or is a single-dash single-letter flag
IsFlag(t) == startswith(t, <<"-", "-">>) \/ is_short_option(t)

AnyFlag == \E n \in 1..Len(tokens) : IsFlag(tokens[n])

\* the schema position a flag token names, 0 when it names none
FlagIndex(t) ==
    IF startswith(t, <<"-", "-">>) THEN NameIndex(SubSeq(t, 3, Len(t)))
    ELSE IF \E j \in 1..NumNames : ParamNames[j][1] = t[2]
         THEN CHOOSE j \in 1..NumNames : ParamNames[j][1] = t[2]
         ELSE 0

\* flags of declared names, each name given at most once, and every other
\* token directly after a flag
FlagsAndValues ==
    \A n \in 1..Len(tokens) :
        IF IsFlag(tokens[n])
        THEN /\ FlagIndex(tokens[n]) # 0
             /\ \A m \in 1..Len(tokens) :
                    (m # n /\ IsFlag(tokens[m])) => FlagIndex(tokens[m]) # FlagIndex(tokens[n])
        ELSE n > 1 /\ IsFlag(tokens[n - 1])

\* the value the construction rule gives the name at schema position i
RuleValue(i) ==
    IF ~AnyFlag THEN (IF i <= Len(tokens) THEN tokens[i] ELSE defaults[i])
    ELSE IF \E n \in 1..Len(tokens) : IsFlag(tokens[n]) /\ FlagIndex(tokens[n]) = i
    THEN LET n == CHOOSE n \in 1..Len(tokens) : IsFlag(tokens[n]) /\ FlagIndex(tokens[n]) = i
         IN  IF n + 1 <= Len(tokens) /\ ~IsFlag(tokens[n + 1]) THEN tokens[n + 1] ELSE <<>>
    ELSE defaults[i]

\* C16: Params construction gives every declared name a value: without a flag
\* token the i-th token is the value of the i-th name; otherwise each flag
\* takes the following token as its value, or the empty string when no value
\* token follows it; a name left unset takes its default, or None.
C16_ConstructionRule ==
    (phase \in {"built", "raised"} /\ (AnyFlag => FlagsAndValues))
        => /\ heap[1].err = "none"
           /\ \A i \in 1..NumNames : get_named(heap[1], i) = RuleValue(i)

-----------------------------------------------------------------------------
\* Properties of the launch of the kernel processes

\* o without a value for the parameter pn
Without(o, pn) == [o EXCEPT !.vals[NameIndex(pn)] = None]

\* the process has a variable of the name of pn, as it is, in capitals or with
\* the MIC_ prefix, whose value is the value get_named returns for pn
PassedByEnv(proc, pn) ==
    \E v \in DOMAIN proc.env \cap {pn, upper(pn), <<"MIC_">> \o upper(pn)} :
        proc.env[v] = get_named(heap[1], NameIndex(pn))

\* the parameter pn is not on the command line of the launched processes
AbsentFromCommandLine(pn) ==
    /\ launch.dev.launched
        => launch.dev.args = DevCommandLine(launch.kernel, launch.type, Without(heap[1], pn))
    /\ launch.host.launched
        => launch.host.args = HostCommandLine(launch.kernel, launch.type, Without(heap[1], pn))

-----------------------------------------------------------------------------
\* Properties of Kernel.category_params

\* 'optimal' was asked of a table that has a 'scaling' list with elements and
\* no 'optimal', with no offload method given
OptimalFromScaling ==
    /\ cat.phase \in {"returned", "raised"}
    /\ cat.asked = "optimal"
    /\ cat.offload = "none"
    /\ cat.table["optimal"] = 0
    /\ cat.table["scaling"] # 0
    /\ cat.heap[cat.table["scaling"]] # <<>>

\* the 'scaling' list of the table
ScalingList == cat.heap[cat.table["scaling"]]

\* a category missing from the table was asked, other than 'optimal' of a
\* table with 'scaling'
UnknownCategory ==
    /\ cat.phase \in {"returned", "raised"}
    /\ cat.table[cat.asked] = 0
    /\ ~(cat.asked = "optimal" /\ cat.table["scaling"] # 0)

\* a category of the table was asked, with no offload method given
KnownCategory ==
    /\ cat.phase = "returned"
    /\ cat.offload = "none"
    /\ cat.table[cat.asked] # 0

\* no step changes a list of the category table
TableKept ==
    \A x \in DOMAIN cat.table :
        cat.table[x] # 0
            => /\ cat'.table[x] = cat.table[x]
               /\ cat'.heap[cat.table[x]] = cat.heap[cat.table[x]]

\* C17 as stated: with 'scaling' and no 'optimal', category_params('optimal')
\* equals the last element of the 'scaling' list; any other missing category
\* raises the unknown-category error; the returned value is a copy, so a
\* change of it does not change what later calls return.
C17_OptimalIsLastScaling ==
    /\ [](OptimalFromScaling
            => /\ cat.err = "none"
               /\ Returned(cat) = ParamString(ScalingList[Len(ScalingList)]))
    /\ [](UnknownCategory => cat.err = "NameError")
    /\ [](KnownCategory => Returned(cat).v = cat.heap[cat.table[cat.asked]])
    /\ [][TableKept]_vars

\* C17 amended: category_params('optimal') is then the list that holds the
\* last element of the 'scaling' list and nothing else; the rest as stated.
C17_OptimalIsListOfLastScaling ==
    /\ [](OptimalFromScaling
            => /\ cat.err = "none"
               /\ Returned(cat)
                    = [kind |-> "list", v |-> <<ScalingList[Len(ScalingList)]>>])
    /\ [](UnknownCategory => cat.err = "NameError")
    /\ [](KnownCategory => Returned(cat).v = cat.heap[cat.table[cat.asked]])
    /\ [][TableKept]_vars

\* C17 happens: after a caller changed the list it was given, 'optimal' was
\* asked again of a table with a 'scaling' list of two different elements and
\* no 'optimal'.
C17_OptimalAskedAgain ==
    /\ OptimalFromScaling
    /\ cat.phase = "returned"
    /\ cat.calls = 2
    /\ Len(cat.heap[cat.table["scaling"]]) = 2
    /\ cat.heap[cat.table["scaling"]][1] # cat.heap[cat.table["scaling"]][2]
    /\ \E ref \in 1..Len(cat.heap) : "x" \in Range(cat.heap[ref])

-----------------------------------------------------------------------------
\* Properties of micp/stats.py

\* the tags of a that are rolled up
RolledUp(a) == {tag \in Tags : a.perf[tag].rollup}

Compared == valid_pairs(cmp.actual, cmp.ref)

\* C19: in relative-error mode the regression test raises PerfRegressionError
\* exactly when some compared pair has a relative error below -margin, in
\* whatever order the pairs are visited, and the worst regression it reports
\* is the most negative relative error of the compared pairs.
C19_RelativeTestFailsOnWorst ==
    (cmp.mode = "relative" /\ cmp.phase = "done")
        => /\ cmp.out.verdict = "PerfRegressionError"
                <=> \E i \in DOMAIN Compared :
                        Less(Sub(Compared[i][1], Compared[i][2]), Neg(cmp.margin))
           /\ cmp.out.verdict = "PerfRegressionError"
                => /\ \E i \in DOMAIN Compared :
                        Same(Neg(Sub(Compared[i][1], Compared[i][2])), cmp.out.worst)
                   /\ \A i \in DOMAIN Compared :
                        ~Less(cmp.out.worst, Neg(Sub(Compared[i][1], Compared[i][2])))

\* C19 happens: with margin 0.05 an improvement was visited, then a pair
\* within the margin, then actual 90 against reference 100, and the test
\* failed reporting 10%.
C19_RegressionAfterImprovement ==
    /\ cmp.mode = "relative"
    /\ cmp.phase = "done"
    /\ cmp.margin = <<5, 100>>
    /\ Len(Compared) = 3
    /\ Compared[1][1] = RateStats(110)
    /\ Compared[2][1] = RateStats(98)
    /\ Compared[3][1] = RateStats(90)
    /\ cmp.out.verdict = "PerfRegressionError"
    /\ Same(cmp.out.worst, <<10, 100>>)

\* the metric values of the Stats the statistical test compares
Measured ==
    {cmp.actual[i].perf[tag].value :
        i \in {j \in DOMAIN cmp.actual : ~IsNone(cmp.actual[j])}, tag \in Tags}

\* C20: in statistical mode the test fails exactly when some metric value of
\* a compared Stats lies below mean - 3*stdev; a value above mean + 3*stdev
\* never makes it fail and only raises the reported best improvement; values
\* strictly inside the window contribute nothing; this for every metric of
\* the Stats and also when mean - 3*stdev is zero or negative.
C20_StatisticalTestFailsBelowWindow ==
    (cmp.mode = "statistical" /\ cmp.phase = "done")
        => LET lo == cmp.model[1] - 3 * cmp.model[2]
               hi == cmp.model[1] + 3 * cmp.model[2]
           IN  /\ cmp.out.verdict \in {"PASSED", "PerfRegressionError"}
               /\ cmp.out.verdict = "PerfRegressionError" <=> \E v \in Measured : v < lo
               /\ (\A v \in Measured : lo < v /\ v < hi)
                    => cmp.out.verdict = "PASSED" /\ Same(cmp.out.best, Zero)
               /\ ((\E v \in Measured : v > hi) /\ (\A v \in Measured : v >= lo))
                    => cmp.out.verdict = "PASSED" /\ Less(Zero, cmp.out.best)

\* the rolled-up rate of a Stats
Rate(s) == s.perf["Computation.Avg"].value

\* C21: in both modes, with a category that starts with 'optimal' exactly one
\* Stats per shared (kernel, offload) is compared, the best of each side; with
\* any other category every Stats of the actual list is compared, with the
\* reference Stats at the same position, so that none is left uncompared when
\* the lists differ in length.
C21_EveryActualCompared ==
    (cmp.mode = "pick" /\ cmp.phase = "done")
        => IF cmp.paramCat \in {"optimal", "optimal_quick"}
           THEN (cmp.actual # <<>> /\ cmp.ref # <<>>)
                    => /\ Len(cmp.out) = 1
                       /\ \A i \in DOMAIN cmp.actual : Rate(cmp.actual[i]) <= Rate(cmp.out[1][1])
                       /\ cmp.test = "relative"
                            => \A i \in DOMAIN cmp.ref : Rate(cmp.ref[i]) <= Rate(cmp.out[1][2])
           ELSE /\ Len(cmp.out) = Len(cmp.actual)
                /\ \A i \in DOMAIN cmp.out :
                    /\ cmp.out[i][1] = cmp.actual[i]
                    /\ cmp.test = "relative" => cmp.out[i][2] = cmp.ref[i]

-----------------------------------------------------------------------------
\* Properties of the parsing of a block

\* C22: for a kernel that scales internally, when parse_desc and parse_perf
\* return sequences of different lengths for a block, run raises a parse
\* error and never yields a result list cut to the shorter sequence.
C22_LengthMismatchRaises ==
    (/\ cmp.mode = "parse"
     /\ cmp.phase = "done"
     /\ cmp.internal_scaling
     /\ Len(cmp.descs) # Len(cmp.perfs))
        => /\ cmp.exc # "none"
           /\ cmp.result = cmp.before

-----------------------------------------------------------------------------
\* Properties of StatsCollection.extend

\* the offload keys of other, for a kk of both collections, whose base
\* name occurs among the keys self had for that kk
Colliding(kk) ==
    {o \in DOMAIN cmp.other[kk] :
        \E mine \in DOMAIN cmp.before[kk] : mine.off = o.off}

\* C23: after self.extend(other), for every kk of both collections and
\* every offload key of other whose base name occurs in self, self's own
\* lists are still stored under their keys and other's list is stored under
\* a distinct key, each returned by get_stat_list; after any number of calls.
C23_CollidingBothRetained ==
    (cmp.mode = "extend" /\ cmp.calls > 0)
        => \A kk \in DOMAIN cmp.before \cap DOMAIN cmp.other :
            \A o \in Colliding(kk) :
                /\ \A mine \in DOMAIN cmp.before[kk] :
                        get_stat_list(cmp.self, kk, mine) = cmp.before[kk][mine]
                /\ \E k2 \in DOMAIN cmp.self[kk] \ DOMAIN cmp.before[kk] :
                        get_stat_list(cmp.self, kk, k2) = cmp.other[kk][o]

\* C23 happens: a second extend brought a list under a key that self already
\* held, with its first ' ext' key taken too.
C23_SecondCollision ==
    /\ cmp.mode = "extend"
    /\ cmp.calls = 2
    /\ "sgemm" \in DOMAIN cmp.before \cap DOMAIN cmp.other
    /\ Key("native", "a", 0) \in DOMAIN cmp.other["sgemm"]
    /\ Key("native", "a", 0) \in DOMAIN cmp.before["sgemm"]
    /\ Key("native", "a", 1) \in DOMAIN cmp.before["sgemm"]
    /\ Key("native", "a", 2) \in DOMAIN cmp.self["sgemm"]

\* the (kernel, offload key) pairs of other that conflict with no pair self
\* had: the kernel was absent from self, or no key of that kernel in self had
\* the base name
NotConflicting ==
    {<<kk, o>> \in UNION {{<<k2, o2>> : o2 \in DOMAIN cmp.other[k2]} : k2 \in DOMAIN cmp.other} :
        \/ kk \notin DOMAIN cmp.before
        \/ \A mine \in DOMAIN cmp.before[kk] : mine.off # o.off}

\* C24: after self.extend(other), every (kernel, offload) pair of other that
\* conflicts with no pair of self is in self with other's list: the result is
\* the union of the two collections.
C24_ExtendIsUnion ==
    (cmp.mode = "extend" /\ cmp.calls > 0)
        => \A pr \in NotConflicting :
            /\ pr[1] \in DOMAIN cmp.self
            /\ pr[2] \in DOMAIN cmp.self[pr[1]]
            /\ cmp.self[pr[1]][pr[2]] = cmp.other[pr[1]][pr[2]]

\* C30: extend never overwrites or removes an entry of the receiving
\* collection: every (kernel, offload key) self stored before the call holds
\* the same list afterwards; the search for a free key ends, at a key with
\* no more ' ext' than the kernel has keys; the kernels of self are unchanged.
C30_ExtendKeepsEntries ==
    (cmp.mode = "extend" /\ cmp.calls > 0)
        => /\ DOMAIN cmp.self = DOMAIN cmp.before
           /\ \A kk \in DOMAIN cmp.before :
                /\ DOMAIN cmp.before[kk] \subseteq DOMAIN cmp.self[kk]
                /\ \A mine \in DOMAIN cmp.before[kk] : cmp.self[kk][mine] = cmp.before[kk][mine]
                /\ \A key \in DOMAIN cmp.self[kk] : key.ext <= Cardinality(DOMAIN cmp.self[kk])

\* C30 happens: a second extend brought, for a kernel of self, a key that
\* self held and a key with a base name self did not hold, and a kernel that
\* self did not hold.
C30_SecondExtendWithTakenKey ==
    /\ cmp.mode = "extend"
    /\ cmp.calls = 2
    /\ "sgemm" \in DOMAIN cmp.before \cap DOMAIN cmp.other
    /\ "stream" \in DOMAIN cmp.other \ DOMAIN cmp.before
    /\ DOMAIN cmp.other["sgemm"] \cap DOMAIN cmp.before["sgemm"] # {}
    /\ Cardinality(DOMAIN cmp.self["sgemm"]) > Cardinality(DOMAIN cmp.before["sgemm"])

-----------------------------------------------------------------------------
\* Properties of StatsCollection.append

\* the Stats of the calls of the log for a key, in call order
RECURSIVE Appended(_, _, _)
Appended(log, kn, o) ==
    IF log = <<>> THEN <<>>
    ELSE (IF Head(log).kernel = kn /\ Head(log).offload = o THEN Head(log).stats ELSE <<>>)
            \o Appended(Tail(log), kn, o)

\* C25: after appends that all succeeded, the list stored for (kernel,
\* offload + '__' + tag) is the concatenation, in call order, of the Stats
\* appended for that key, and every kernel has one independent-variable
\* name; an append whose xName differs from the recorded one raises NameError.
C25_AppendConcatenates ==
    (cmp.mode = "append" /\ cmp.calls > 0)
        => /\ ~cmp.failed
                => /\ \A i \in DOMAIN cmp.log :
                        /\ \E j \in DOMAIN cmp.store :
                            /\ cmp.store[j].kernel = cmp.log[i].kernel
                            /\ cmp.store[j].offload = cmp.log[i].offload
                        /\ cmp.log[i].kernel \in DOMAIN cmp.xName
                        /\ cmp.xName[cmp.log[i].kernel] = cmp.log[i].xName
                   /\ \A j \in DOMAIN cmp.store :
                        /\ cmp.store[j].stats
                                = Appended(cmp.log, cmp.store[j].kernel, cmp.store[j].offload)
                        /\ \A j2 \in DOMAIN cmp.store :
                            (/\ cmp.store[j2].kernel = cmp.store[j].kernel
                             /\ cmp.store[j2].offload = cmp.store[j].offload) => j2 = j
           /\ (/\ cmp.call.kernel \in DOMAIN cmp.before.xName
               /\ cmp.before.xName[cmp.call.kernel] # cmp.call.xName)
                => cmp.err = "NameError"

\* C25 happens: three appends succeeded, two of them for the same key with
\* Stats in both.
C25_SameKeyTwice ==
    /\ cmp.mode = "append"
    /\ ~cmp.failed
    /\ cmp.calls = 3
    /\ \E i, j \in DOMAIN cmp.log :
        /\ i < j
        /\ cmp.log[i].kernel = cmp.log[j].kernel
        /\ cmp.log[i].offload = cmp.log[j].offload
        /\ cmp.log[i].stats # <<>>
        /\ cmp.log[j].stats # <<>>

\* C29: an append that raises the NameError of the independent variable
\* leaves the collection as it was: the stored lists and the recorded names
\* are those of before the call.
C29_FailedAppendChangesNothing ==
    (cmp.mode = "append" /\ cmp.calls > 0 /\ cmp.err = "NameError")
        => /\ cmp.store = cmp.before.store
           /\ cmp.xName = cmp.before.xName

-----------------------------------------------------------------------------
\* Properties of StatsCollectionStore.get_for_regression_test

\* the stored collections of the same hardware, of a version not above the
\* running one, whose tag contains testName
Compatible ==
    {i \in DOMAIN cmp.stored :
        /\ cmp.stored[i].same_sku
        /\ cmp.stored[i].version <= 2
        /\ \/ cmp.testName = ""
           \/ cmp.testName = "optimal" /\ cmp.stored[i].tag = "optimal_x"
           \/ cmp.testName = "scaling" /\ cmp.stored[i].tag = "scaling_x"}

\* the most recent of them
MostRecent ==
    {i \in Compatible : \A j \in Compatible : cmp.stored[j].version <= cmp.stored[i].version}

\* C26: get_for_regression_test returns a stored collection only when exactly
\* one collection of the same hardware, of a version not above the running
\* one and with testName in its tag qualifies, and raises with none or with
\* several; among such collections of different versions the most recent one
\* is the one that counts.
C26_MostRecentCompatible ==
    (cmp.mode = "store" /\ cmp.phase = "done")
        => /\ cmp.out.err = "none" <=> Cardinality(MostRecent) = 1
           /\ cmp.out.err = "none" => cmp.out.ret \in MostRecent

-----------------------------------------------------------------------------
\* Properties of the peak selection

\* i is the position of a Stats whose key is extremal in the direction of the
\* kernel, and the first of those
FirstExtremal(i) ==
    /\ i \in DOMAIN cmp.result
    /\ \A j \in DOMAIN cmp.result :
        IF cmp.attr = "False"
        THEN cmp.result[i].key.v <= cmp.result[j].key.v
        ELSE cmp.result[i].key.v >= cmp.result[j].key.v
    /\ \A j \in 1..(i - 1) : cmp.result[j].key.v # cmp.result[i].key.v

\* C27: after a sweep of more than one Stats for a kernel with an ordering
\* key, the peak is a Stats whose key is the greatest (the least when the
\* kernel sets _reverse_ordering to False), the first executed among equal
\* keys; an exception raised during the peak selection does not change the
\* list run returns.
C27_PeakIsFirstExtremal ==
    (cmp.mode = "peak" /\ cmp.phase = "done" /\ Len(cmp.result) > 1 /\ cmp.defined)
        => /\ cmp.out.returned
           /\ cmp.out.retval = cmp.result
           /\ (\A i \in DOMAIN cmp.result : cmp.result[i].key.kind # "KeyError")
                => FirstExtremal(cmp.out.peak)

-----------------------------------------------------------------------------
\* Properties of ParamsDrop and the quiet names

\* o with the values of the given names removed
Unset(o, names) ==
    [o EXCEPT !.vals = [i \in 1..NumNames |->
                            IF ParamNames[i] \in names THEN None ELSE o.vals[i]]]

\* C28: when a parameter set built with quiet names is wrapped in ParamsDrop,
\* every name that was quiet in the wrapped set is still left out of
\* pos_list, value_str and flag_str of the ParamsDrop: the quiet names of the
\* wrapper include those of the wrapped set.
C28_DropKeepsQuietNames ==
    (phase = "dropped" /\ heap[1].quiet # {})
        => /\ heap[1].quiet \subseteq heap[paramsDrop.ref].quiet
           /\ pos_list(heap[paramsDrop.ref])
                = pos_list(Unset(heap[paramsDrop.ref], heap[1].quiet))
           /\ value_str(heap[paramsDrop.ref])
                = value_str(Unset(heap[paramsDrop.ref], heap[1].quiet))
           /\ flag_str(heap[paramsDrop.ref])
                = flag_str(Unset(heap[paramsDrop.ref], heap[1].quiet))
====
